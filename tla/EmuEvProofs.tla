---------------------------- MODULE EmuEvProofs -----------------------------
(***************************************************************************)
(* The emu plugins keep their promises for any intervals, timeouts and     *)
(* delays, any PIDs and DIDs of the vehicle, battery ECUs that are silent, *)
(* late or refuse, and any number of losses, returns and broadcasts.       *)
(***************************************************************************)
EXTENDS EmuEv, PollerProofs, FiniteSetTheorems

(***************************************************************************)
(* The inductive invariant, in parts.                                      *)
(***************************************************************************)
Keys == Pids \cup Dids

\* Where the thread waits on the raw socket, and where on the ISO-TP socket.
RawCalls == {"discover", "query", "idle"}
IsoCalls == {"probePack", "probeAssist", "pollDid"}
Blocking == RawCalls \cup IsoCalls \cup {"sleep"}

\* The engine ECU has a request only while the thread waits for the answer.
HeardWaits == heard \in BOOLEAN /\ (heard => "obd" \in up /\ pc \in {"discover", "query"})

\* The thread's own state.
ThreadInv ==
    /\ pc \in {"top", "discover", "probePack", "probeAssist", "sleep", "poll", "query",
               "pollDid", "idle", "publish", "done", "stopped"}
    /\ running \in BOOLEAN /\ bmsOpen \in BOOLEAN /\ discovered \in BOOLEAN
    /\ bmsPresent \in BOOLEAN /\ assistPresent \in BOOLEAN
    /\ link \in {"unknown", "up", "down"}
    /\ discovered <=> link = "up"
    /\ pc \in {"poll", "query", "pollDid", "idle", "publish"} => discovered
    /\ pc \in {"discover", "probePack", "probeAssist", "sleep"} => ~discovered
    /\ pc \in {"done", "stopped"} => ~running
    /\ up \subseteq Ecus
    /\ HeardWaits

\* The clock and what was read off it.
ClockInv ==
    /\ now \in Nat /\ now <= MaxTime
    /\ loopNow \in Nat /\ loopNow <= now
    /\ since \in Nat /\ since <= now
    /\ nextPublish \in Nat /\ nextPublish <= now + PublishPeriod
    /\ moves \in 0 .. MaxMoves

\* Blocking calls end by their timeouts and a lag.
CallInv ==
    /\ wakeBy \in Nat
    /\ pc \notin Blocking => wakeBy = 0
    /\ pc \in Blocking => now <= wakeBy + MaxLag
    /\ pc \in {"discover", "probePack", "probeAssist"} => wakeBy <= now + DiscoverTimeout
    /\ pc = "sleep" => wakeBy <= now + RetrySleep
    /\ pc \in {"query", "pollDid"} => wakeBy <= now + Fast
    /\ pc = "idle" => wakeBy <= now + IdleMax

\* What a chain of blocks has found so far begins with the first block.
ChainInv ==
    /\ block \in 0 .. Len(Blocks)
    /\ found \subseteq Advertised
    /\ pc = "discover" => block >= 1
    /\ block > 1 => Blocks[1] \subseteq found

\* The poller: a PID's or DID's item has its tier's interval.
ItemsInv ==
    /\ PollerOk(poller, Keys)
    /\ \A i \in 1 .. Len(poller.items) :
          /\ poller.items[i].interval = interval(poller.items[i].pid)
          /\ poller.items[i].due <= now + poller.items[i].interval
          /\ poller.items[i].lastAnswer <= now
    /\ current \in Keys \cup {NoKey}
    /\ pc = "query" => current \in Pids \cap PidsOf(poller)
    /\ pc = "pollDid" => current \in Dids \cap PidsOf(poller)

\* A poller of the given PIDs and DIDs before the first request, the speed first.
Started(p, keys) ==
    /\ PollerOk(p, Keys) /\ PidsOf(p) = keys /\ p.unanswered = 0
    /\ \A i \in 1 .. Len(p.items) :
          /\ p.items[i].interval = interval(p.items[i].pid)
          /\ p.items[i].due = 0 /\ p.items[i].lastAnswer = Never
    /\ "SPEED" \in keys => Len(p.items) >= 1 /\ p.items[1].pid = "SPEED"

\* What is polled at each point of a discovery, and after it.
PolledInv ==
    /\ supported \subseteq Advertised
    /\ discovered \/ pc \in {"probePack", "probeAssist"} => Blocks[1] \subseteq supported
    /\ pc = "probePack" => ~bmsPresent /\ Started(poller, supported \cap Pids)
    /\ pc = "probeAssist"
          => /\ bmsPresent
             /\ Started(poller, (supported \cap Pids) \cup (Dids \ {"ASSIST"}))
    /\ pc \notin {"probePack", "probeAssist"} => PidsOf(poller) = CapableKeys

\* Values and records, and what was made of them.
DataInv ==
    /\ values \in [Pids -> Nat \cup {Never}]
    /\ \A pid \in Pids : /\ values[pid] <= now
                         /\ values[pid] # Never => pid \in PidsOf(poller)
    /\ record \in [Dids -> [sent: Nat \cup {Never}, kind: Records \cup {"good"}]]
    /\ \A did \in Dids : record[did].sent <= now
    /\ published.valid \subseteq published.capable

\* The ISO-TP socket: a reply is read as soon as the thread waits for one.
Replies == [did: Dids \cup {NoKey}, kind: Records \cup {"good"}, sent: Nat]

IsoInv ==
    /\ owed \in Seq(Dids) /\ Len(owed) <= MaxQueue
    /\ rx \in Seq(Replies) /\ Len(rx) <= MaxQueue
    /\ \A i \in 1 .. Len(rx) : rx[i].sent <= now
    /\ pc \in IsoCalls /\ rx # <<>> => now <= rx[1].sent + MaxLag
    /\ owed # <<>> => "bms" \in up

\* The lamps and the broadcasts that wait, in the order they came.
Broadcasts == [lit: SUBSET Lamps, at: Nat]

LampsInv ==
    /\ lamps \subseteq Lamps
    /\ lampsSeen \in Nat \cup {Never} /\ lampsSeen <= now
    /\ lampsAt \in Nat \cup {Never} /\ lampsAt <= lampsSeen
    /\ lampsSeen >= 0 => lampsAt >= 0
    /\ inbox \in Seq(Broadcasts) /\ Len(inbox) <= MaxQueue
    /\ \A i \in 1 .. Len(inbox) : inbox[i].at <= now
    /\ \A i, j \in 1 .. Len(inbox) : i <= j => inbox[i].at <= inbox[j].at

StateInv ==
    /\ ThreadInv /\ ClockInv /\ CallInv /\ ChainInv
    /\ ItemsInv /\ PolledInv /\ DataInv /\ IsoInv /\ LampsInv
-----------------------------------------------------------------------------
(***************************************************************************)
(* The constants.                                                          *)
(***************************************************************************)
USE DEF callVars, chainVars, knownVars, hostVars, lampVars, isoVars, vehicleVars, vars

\* The durations are natural numbers, those of calls and pauses not zero.
LEMMA Durations ==
    /\ Fast \in Nat /\ Fast > 0 /\ DiscoverTimeout \in Nat /\ DiscoverTimeout > 0
    /\ RetrySleep \in Nat /\ RetrySleep > 0 /\ IdleMax \in Nat /\ IdleMax > 0
    /\ PublishPeriod \in Nat /\ PublishPeriod > 0
    /\ LampWindow \in Nat /\ MaxLag \in Nat /\ MaxTime \in Nat
    /\ MaxQueue \in Nat /\ MaxMoves \in Nat
BY PollTimingAssumption

\* An interval is positive, and no shorter than the fast one.
LEMMA Intervals ==
    /\ \A key \in Keys : interval(key) \in Nat \ {0} /\ interval(key) >= Fast
    /\ interval("SPEED") = Fast /\ interval("DRIVE") = Fast
BY Durations DEF interval, Keys, Pids, Dids

\* PIDs, DIDs and the idle value of current are different things.
LEMMA KeyFacts ==
    /\ Pids \cap Dids = {} /\ NoKey \notin Keys /\ "SPEED" \in Pids
    /\ "DRIVE" \in Dids /\ "PACK" \in Dids /\ "RANGE" \in Dids /\ "ASSIST" \in Dids
BY DEF Keys, Pids, Dids, NoKey

LEMMA EcuFacts ==
    /\ Lossy \in BOOLEAN /\ Late \in BOOLEAN /\ Hybrid \in BOOLEAN
    /\ Movers \subseteq SUBSET Ecus
    /\ Blocks \in Seq(SUBSET EnginePids) /\ Len(Blocks) \in Nat \ {0}
BY EcuAssumption

\* What a block advertises is advertised, and the first block is the speed's.
LEMMA BlockFacts ==
    /\ \A b \in 1 .. Len(Blocks) : Blocks[b] \subseteq Advertised
    /\ 1 \in 1 .. Len(Blocks)
    /\ "SPEED" \in Advertised => "SPEED" \in Blocks[1]
<1>1. \A b \in DOMAIN Blocks : "SPEED" \in Blocks[b] => b = 1
  BY EcuAssumption
<1> QED
  BY <1>1, EcuFacts DEF Advertised
-----------------------------------------------------------------------------
(***************************************************************************)
(* The sockets' calls.                                                     *)
(***************************************************************************)

\* A request is heard only by an ECU that is there, and then always unless requests
\* are lost.
LEMMA RequestFacts ==
    ASSUME NEW d, request(d)
    PROVE  /\ wakeBy' = now + d
           /\ heard' \in BOOLEAN /\ (heard' => "obd" \in up)
           /\ ("obd" \in up /\ ~Lossy => heard')
BY DEF request

\* transact() begins with an empty socket, and asks an ECU that is there.
LEMMA TransactFacts ==
    ASSUME NEW did, NEW d, transact(did, d)
    PROVE  /\ wakeBy' = now + d /\ current' = did /\ rx' = <<>>
           /\ \/ owed' = owed
              \/ "bms" \in up /\ Len(owed) < MaxQueue /\ owed' = Append(owed, did)
<1>1. wakeBy' = now + d /\ current' = did /\ rx' = <<>>
  BY DEF transact, drained
<1>2. owed' \in (IF "bms" \in up /\ Len(owed) < MaxQueue
                 THEN {Append(owed, did)} ELSE {owed}) \cup (IF Lossy THEN {owed} ELSE {})
  BY DEF transact
<1>3. CASE "bms" \in up /\ Len(owed) < MaxQueue
  <2>1. owed' \in {Append(owed, did), owed}
    BY <1>2, <1>3
  <2> QED
    BY <1>1, <1>3, <2>1
<1>4. CASE ~("bms" \in up /\ Len(owed) < MaxQueue)
  <2>1. owed' = owed
    BY <1>2, <1>4
  <2> QED
    BY <1>1, <2>1
<1> QED
  BY <1>3, <1>4
-----------------------------------------------------------------------------
(***************************************************************************)
(* What the thread's steps do.                                             *)
(***************************************************************************)

\* A poll ends with an answer, which ends the streak, or without one; the eighth in a
\* row takes the link down.
LEMMA PollEnds ==
    ASSUME QueryAnswer \/ QueryFail \/ PollDidReply \/ PollDidFail
    PROVE  /\ pc \in {"query", "pollDid"}
           /\ wakeBy' = 0 /\ current' = NoKey /\ ~heard' /\ heard' \in BOOLEAN
           /\ \/ pc' = "publish" /\ UNCHANGED <<discovered, link>>
                 /\ poller' = markAnswered(poller, current, now)
              \/ pc' = "publish" /\ UNCHANGED <<discovered, link, poller>>
                 /\ poller.unanswered < 8
              \/ pc' = "top" /\ discovered' = FALSE /\ link' = "down" /\ UNCHANGED poller
                 /\ poller.unanswered >= 8
           /\ UNCHANGED <<now, running, loopNow, bmsOpen, bmsPresent, assistPresent,
                          supported, nextPublish, published, lampVars, owed, vehicleVars>>
<1>1. CASE QueryAnswer
  BY <1>1 DEF QueryAnswer, Answered, return
<1>2. CASE QueryFail
  BY <1>2 DEF QueryFail, Unanswered, return
<1>3. CASE PollDidReply
  <2>1. Answered \/ Unanswered
    BY <1>3 DEF PollDidReply
  <2>2. /\ pc = "pollDid" /\ UNCHANGED owed
        /\ UNCHANGED <<now, running, loopNow, bmsOpen, bmsPresent, assistPresent,
                       supported, nextPublish, published, lampVars, vehicleVars>>
    BY <1>3 DEF PollDidReply, read
  <2> QED
    BY <2>1, <2>2 DEF Answered, Unanswered, return
<1>4. CASE PollDidFail
  <2>1. Unanswered
    BY <1>4 DEF PollDidFail
  <2>2. /\ pc = "pollDid" /\ UNCHANGED owed
        /\ UNCHANGED <<now, running, loopNow, bmsOpen, bmsPresent, assistPresent,
                       supported, nextPublish, published, lampVars, vehicleVars>>
    BY <1>4 DEF PollDidFail, read
  <2> QED
    BY <2>1, <2>2 DEF Unanswered, return
<1> QED
  BY <1>1, <1>2, <1>3, <1>4

\* The engine ECU's PIDs are known, whether or not its last block was answered.
DiscoverObd == DiscoverLastBlock \/ DiscoverCutShort

\* They begin with the first block's.
LEMMA ObdFacts ==
    ASSUME DiscoverObd
    PROVE  /\ pc = "discover" /\ ObdFound(supported')
           /\ ChainInv => Blocks[1] \subseteq supported' /\ supported' \subseteq Advertised
<1>1. CASE DiscoverLastBlock
  <2>1. pc = "discover" /\ block = Len(Blocks) /\ ObdFound(found \cup Blocks[block])
    BY <1>1 DEF DiscoverLastBlock
  <2>2. supported' = found \cup Blocks[block]
    BY <2>1 DEF ObdFound
  <2>3. ObdFound(supported')
    BY <2>1, <2>2
  <2>4. ASSUME ChainInv
        PROVE  Blocks[1] \subseteq supported' /\ supported' \subseteq Advertised
    BY <2>1, <2>2, <2>4, BlockFacts, EcuFacts DEF ChainInv
  <2> QED
    BY <2>1, <2>3, <2>4
<1>2. CASE DiscoverCutShort
  <2>1. pc = "discover" /\ block > 1 /\ ObdFound(found)
    BY <1>2 DEF DiscoverCutShort
  <2>2. supported' = found
    BY <2>1 DEF ObdFound
  <2>3. ObdFound(supported')
    BY <2>1, <2>2
  <2> QED
    BY <2>1, <2>2, <2>3 DEF ChainInv
<1> QED
  BY <1>1, <1>2 DEF DiscoverObd

\* The next block is asked for as the first was.
LEMMA NextBlockFacts ==
    ASSUME DiscoverNextBlock
    PROVE  /\ pc = "discover" /\ heard /\ AnswerNext
           /\ block < Len(Blocks) /\ block' = block + 1 /\ found' = found \cup Blocks[block]
           /\ wakeBy' = now + DiscoverTimeout
           /\ heard' \in BOOLEAN /\ (heard' => "obd" \in up)
           /\ ("obd" \in up /\ ~Lossy => heard')
           /\ UNCHANGED <<now, pc, running, loopNow, current, bmsOpen, knownVars, poller,
                          values, record, hostVars, lampVars, isoVars, vehicleVars>>
BY RequestFacts DEF DiscoverNextBlock

\* A discovery ends with or without the battery ECU.
DiscoveryEnds == (DiscoverObd /\ ~bmsOpen) \/ ProbePackFail \/ ProbeAssist

LEMMA DiscoveryFacts ==
    ASSUME DiscoveryEnds
    PROVE  /\ pc \in {"discover", "probePack", "probeAssist"} /\ pc' = "poll"
           /\ discovered' = TRUE /\ link' = "up"
           /\ wakeBy' = 0 /\ current' = NoKey /\ ~heard' /\ heard' \in BOOLEAN
           /\ UNCHANGED <<now, running, loopNow, bmsOpen, record, nextPublish, published,
                          lampVars, owed, vehicleVars>>
<1>1. CASE DiscoverObd /\ ~bmsOpen
  BY <1>1, ObdFacts DEF ObdFound, Discovered, return
<1>2. CASE ProbePackFail
  BY <1>2 DEF ProbePackFail, Discovered, return, read
<1>3. CASE ProbeAssist
  BY <1>3 DEF ProbeAssist, Discovered, return, read
<1> QED
  BY <1>1, <1>2, <1>3 DEF DiscoveryEnds

\* The battery ECU is asked during a discovery.
Probes == (DiscoverObd /\ bmsOpen) \/ ProbePackAnswer

LEMMA ProbeFacts ==
    ASSUME HeardWaits, Probes
    PROVE  /\ \/ pc = "discover" /\ pc' = "probePack" /\ current' = "PACK"
              \/ pc = "probePack" /\ pc' = "probeAssist" /\ current' = "ASSIST"
           /\ wakeBy' = now + DiscoverTimeout /\ rx' = <<>> /\ ~heard' /\ heard' \in BOOLEAN
           /\ \/ owed' = owed
              \/ /\ "bms" \in up /\ Len(owed) < MaxQueue
                 /\ \E did \in Dids : owed' = Append(owed, did)
           /\ UNCHANGED <<now, running, loopNow, bmsOpen, discovered, assistPresent, record,
                          hostVars, lampVars, vehicleVars>>
<1>1. CASE DiscoverObd /\ bmsOpen
  <2>1. transact("PACK", DiscoverTimeout) /\ pc = "discover" /\ pc' = "probePack"
        /\ ~heard' /\ heard' \in BOOLEAN
        /\ UNCHANGED <<now, running, loopNow, bmsOpen, discovered, assistPresent, record,
                          hostVars, lampVars, vehicleVars>>
    BY <1>1, ObdFacts DEF ObdFound
  <2> QED
    BY <2>1, TransactFacts, KeyFacts
<1>2. CASE ProbePackAnswer
  <2>1. transact("ASSIST", DiscoverTimeout) /\ pc = "probePack" /\ pc' = "probeAssist"
        /\ UNCHANGED heard
        /\ UNCHANGED <<now, running, loopNow, bmsOpen, discovered, assistPresent, record,
                          hostVars, lampVars, vehicleVars>>
    BY <1>2 DEF ProbePackAnswer
  <2>2. heard = FALSE
    BY <2>1 DEF HeardWaits
  <2> QED
    BY <2>1, <2>2, TransactFacts, KeyFacts
<1> QED
  BY <1>1, <1>2 DEF Probes

\* A poll asks the engine ECU, or the battery ECU.
AsksEngine ==
    /\ pc' = "query" /\ current' \in Pids /\ UNCHANGED isoVars
    /\ heard' \in BOOLEAN /\ (heard' => "obd" \in up)
    /\ "obd" \in up /\ ~Lossy => heard'

AsksBms ==
    /\ pc' = "pollDid" /\ current' \in Dids /\ rx' = <<>>
    /\ ~heard' /\ heard' \in BOOLEAN
    /\ \/ owed' = owed
       \/ "bms" \in up /\ Len(owed) < MaxQueue /\ owed' = Append(owed, current')

\* It asks for the most overdue PID or DID.
LEMMA RequestsFacts ==
    ASSUME HeardWaits, PollRequest
    PROVE  /\ pc = "poll" /\ DueItems(poller, loopNow) # {} /\ loopNow' = 0
           /\ current' = nextDue(poller, loopNow) /\ wakeBy' = now + Fast
           /\ poller' = markRequested(poller, nextDue(poller, loopNow), loopNow)
           /\ AsksEngine \/ AsksBms
           /\ UNCHANGED <<now, running, bmsOpen, knownVars, values, record, hostVars,
                          lampVars, vehicleVars>>
<1> DEFINE key == nextDue(poller, loopNow)
<1>1. /\ pc = "poll" /\ DueItems(poller, loopNow) # {} /\ loopNow' = 0
      /\ poller' = markRequested(poller, key, loopNow)
      /\ UNCHANGED <<now, running, bmsOpen, knownVars, values, record, hostVars,
                          lampVars, vehicleVars>>
  BY DEF PollRequest
<1>2. \/ key \in Pids /\ request(Fast) /\ current' = key /\ pc' = "query" /\ UNCHANGED isoVars
      \/ key \in Dids /\ transact(key, Fast) /\ pc' = "pollDid" /\ UNCHANGED heard
  BY DEF PollRequest
<1>3. heard = FALSE
  BY <1>1 DEF HeardWaits
<1> HIDE DEF key
<1>4. CASE key \in Pids /\ request(Fast) /\ current' = key /\ pc' = "query"
           /\ UNCHANGED isoVars
  <2>1. wakeBy' = now + Fast
    BY <1>4, RequestFacts
  <2>2. AsksEngine
    BY <1>4, RequestFacts DEF AsksEngine
  <2> QED
    BY <1>1, <1>4, <2>1, <2>2 DEF key
<1>5. CASE key \in Dids /\ transact(key, Fast) /\ pc' = "pollDid" /\ UNCHANGED heard
  <2>1. wakeBy' = now + Fast /\ current' = key
    BY <1>5, TransactFacts
  <2>2. AsksBms
    BY <1>3, <1>5, TransactFacts DEF AsksBms
  <2> QED
    BY <1>1, <2>1, <2>2 DEF key
<1> QED
  BY <1>2, <1>4, <1>5

\* The raw socket is read, and only an idle call returns with that.
LEMMA TelltalesFacts ==
    ASSUME HeardWaits, onTelltales
    PROVE  /\ pc \in RawCalls /\ inbox # <<>> /\ inbox' = Tail(inbox)
           /\ lampsSeen' = now /\ lampsAt' = Head(inbox).at /\ lamps' = Head(inbox).lit
           /\ \/ pc = "idle" /\ pc' = "publish" /\ wakeBy' = 0 /\ current' = NoKey
                 /\ ~heard'
              \/ pc # "idle" /\ UNCHANGED <<pc, wakeBy, current>> /\ (heard' <=> heard)
           /\ heard' \in BOOLEAN
           /\ UNCHANGED <<now, running, loopNow, chainVars, bmsOpen, knownVars, poller, values,
                          record, hostVars, isoVars, vehicleVars>>
<1>1. CASE pc = "idle"
  BY <1>1 DEF onTelltales, return, RawCalls
<1>2. CASE pc # "idle"
  BY <1>2 DEF onTelltales, RawCalls, HeardWaits
<1> QED
  BY <1>1, <1>2

\* The ECUs come and leave, with what they have not answered; nothing else happens.
LEMMA MovesFacts ==
    ASSUME up \subseteq Ecus, HeardWaits, owed # <<>> => "bms" \in up, NEW ecus \in Movers, Moves(ecus)
    PROVE  /\ up' \subseteq Ecus /\ since' = now /\ moves' = moves + 1 /\ moves < MaxMoves
           /\ heard' \in BOOLEAN /\ (heard' => heard /\ "obd" \in up')
           /\ "obd" \notin UNION Movers => heard' = heard /\ ("obd" \in up' <=> "obd" \in up)
           /\ owed' = owed \/ owed' = <<>>
           /\ owed' # <<>> => "bms" \in up'
           /\ UNCHANGED <<now, pc, running, loopNow, callVars, bmsOpen, knownVars, poller,
                          values, record, hostVars, lampVars, rx>>
<1>1. /\ since' = now /\ moves' = moves + 1 /\ moves < MaxMoves
      /\ UNCHANGED <<now, pc, running, loopNow, callVars, bmsOpen, knownVars, poller,
                     values, record, hostVars, lampVars, rx>>
  BY DEF Moves
<1>2. ecus \subseteq Ecus /\ up \subseteq Ecus /\ heard \in BOOLEAN
      /\ (heard => "obd" \in up)
  BY EcuFacts DEF HeardWaits
<1>3. CASE Come(ecus)
  BY <1>1, <1>2, <1>3 DEF Come
<1>4. CASE Leave(ecus)
  BY <1>1, <1>2, <1>4 DEF Leave
<1> QED
  BY <1>3, <1>4 DEF Moves
-----------------------------------------------------------------------------
(***************************************************************************)
(* The state of the thread.                                                *)
(***************************************************************************)

\* idle() is called for at least one unit and at most IdleMax, and not past a
\* deadline to come.
LEMMA IdleFacts ==
    ASSUME ItemsInv, ClockInv, PollIdle
    PROVE  /\ wakeBy' \in Nat /\ now <= wakeBy' /\ wakeBy' <= now + IdleMax
           /\ \A i \in 1 .. Len(poller.items) :
                 poller.items[i].due > loopNow
                    => wakeBy' - now <= poller.items[i].due - loopNow
<1> DEFINE nd == nextDeadline(poller, loopNow)
           wait == Min({IdleMax, nd - loopNow})
<1>1. /\ nd \in Nat /\ nd >= loopNow
      /\ \A i \in 1 .. Len(poller.items) :
            poller.items[i].due > loopNow => nd <= poller.items[i].due
  BY NextDeadlineFacts DEF ItemsInv, ClockInv
<1>2. \A i \in 1 .. Len(poller.items) : poller.items[i].due \in Nat
  BY ItemFacts DEF ItemsInv
<1> HIDE DEF nd
<1>3. loopNow \in Nat /\ now \in Nat
  BY DEF ClockInv
<1>4. IdleMax \in Int /\ nd - loopNow \in Int
  BY <1>1, <1>3, Durations
<1>5. wait = IF IdleMax <= nd - loopNow THEN IdleMax ELSE nd - loopNow
  BY <1>4, MinMaxOfTwo
<1>6. wait \in Int
  BY <1>4, <1>5
<1>7. wakeBy' = now + Max({1, wait})
  BY DEF PollIdle, nd
<1> HIDE DEF wait
<1>8. Max({1, wait}) = IF 1 >= wait THEN 1 ELSE wait
  BY <1>6, MinMaxOfTwo
<1>9. wakeBy' \in Nat /\ now <= wakeBy' /\ wakeBy' <= now + IdleMax
  BY <1>3, <1>5, <1>6, <1>7, <1>8, Durations
<1>10. ASSUME NEW i \in 1 .. Len(poller.items), poller.items[i].due > loopNow
       PROVE  wakeBy' - now <= poller.items[i].due - loopNow
  <2>1. poller.items[i].due \in Nat /\ nd <= poller.items[i].due
    BY <1>1, <1>2, <1>10
  <2>2. wait <= poller.items[i].due - loopNow
    BY <1>1, <1>3, <1>4, <1>5, <2>1, Durations
  <2>3. 1 <= poller.items[i].due - loopNow
    BY <1>3, <1>10, <2>1
  <2>4. wakeBy' - now = IF 1 >= wait THEN 1 ELSE wait
    BY <1>3, <1>6, <1>7, <1>8
  <2> QED
    BY <2>2, <2>3, <2>4
<1> QED
  BY <1>9, <1>10

\* Every step is one of these.
LEMMA Steps ==
    ASSUME [Next]_vars
    PROVE  \/ LoopTop \/ LoopExit \/ Wake \/ DiscoverNextBlock \/ DiscoverFail
           \/ Probes \/ DiscoveryEnds \/ PollRequest \/ PollIdle
           \/ QueryAnswer \/ QueryFail \/ PollDidReply \/ PollDidFail
           \/ IdleEnd \/ Publish \/ onTelltales \/ Stop \/ StopJoined
           \/ \E kind \in Records : BmsReplies(kind)
           \/ \E lit \in SUBSET Lamps : Broadcast(lit)
           \/ \E ecus \in Movers : Moves(ecus)
           \/ Advance \/ UNCHANGED vars
BY DEF Next, Probes, DiscoveryEnds, DiscoverObd, Finished

LEMMA HeardStep ==
    ThreadInv /\ IsoInv /\ [Next]_vars => HeardWaits'
<1> SUFFICES ASSUME ThreadInv, IsoInv, [Next]_vars
             PROVE  HeardWaits'
  OBVIOUS
<1>0. HeardWaits /\ up \subseteq Ecus /\ (owed # <<>> => "bms" \in up)
  BY DEF ThreadInv, IsoInv
<1> USE DEF HeardWaits
<1>1. CASE LoopTop
  BY <1>0, <1>1, RequestFacts DEF LoopTop
<1>2. CASE LoopExit
  BY <1>0, <1>2 DEF LoopExit
<1>3. CASE Wake
  BY <1>0, <1>3 DEF Wake, return
<1>4. CASE Probes
  BY <1>0, <1>4, ProbeFacts
<1>5. CASE DiscoveryEnds
  BY <1>0, <1>5, DiscoveryFacts
<1>6. CASE DiscoverFail
  BY <1>0, <1>6 DEF DiscoverFail
<1>7. CASE PollRequest
  BY <1>0, <1>7, RequestsFacts DEF AsksEngine, AsksBms
<1>8. CASE PollIdle
  BY <1>0, <1>8 DEF PollIdle
<1>9. CASE QueryAnswer \/ QueryFail \/ PollDidReply \/ PollDidFail
  BY <1>0, <1>9, PollEnds
<1>10. CASE IdleEnd
  BY <1>0, <1>10 DEF IdleEnd, return
<1>11. CASE Publish
  BY <1>0, <1>11 DEF Publish
<1>12. CASE onTelltales
  BY <1>0, <1>12, TelltalesFacts DEF RawCalls
<1>13. CASE Stop
  BY <1>0, <1>13 DEF Stop
<1>14. CASE StopJoined
  BY <1>0, <1>14 DEF StopJoined
<1>15. ASSUME NEW kind \in Records, BmsReplies(kind)
       PROVE  HeardWaits'
  BY <1>0, <1>15 DEF BmsReplies
<1>16. ASSUME NEW lit \in SUBSET Lamps, Broadcast(lit)
       PROVE  HeardWaits'
  BY <1>0, <1>16 DEF Broadcast
<1>17. ASSUME NEW ecus \in Movers, Moves(ecus)
       PROVE  HeardWaits'
  BY <1>0, <1>17, MovesFacts
<1>18. CASE Advance
  BY <1>0, <1>18 DEF Advance
<1>19. CASE UNCHANGED vars
  BY <1>0, <1>19
<1>20. CASE DiscoverNextBlock
  BY <1>0, <1>20, NextBlockFacts
<1> QED
  BY <1>1, <1>2, <1>3, <1>4, <1>5, <1>6, <1>7, <1>8, <1>9, <1>10, <1>11, <1>12, <1>13,
     <1>14, <1>15, <1>16, <1>17, <1>18, <1>19, <1>20, Steps

LEMMA ThreadStep ==
    ThreadInv /\ IsoInv /\ [Next]_vars => ThreadInv'
<1> SUFFICES ASSUME ThreadInv, IsoInv, [Next]_vars
             PROVE  ThreadInv'
  OBVIOUS
<1>0. HeardWaits' /\ (owed # <<>> => "bms" \in up)
  BY HeardStep DEF IsoInv
<1> USE DEF ThreadInv
<1>1. CASE LoopTop
  BY <1>0, <1>1, RequestFacts DEF LoopTop
<1>2. CASE LoopExit
  BY <1>0, <1>2 DEF LoopExit
<1>3. CASE Wake
  BY <1>0, <1>3 DEF Wake, return
<1>4. CASE Probes
  <2>1. bmsPresent' \in BOOLEAN
    BY <1>0, <1>4, ObdFacts DEF Probes, ObdFound, ProbePackAnswer
  <2> QED
    BY <1>0, <1>4, <2>1, ProbeFacts
<1>5. CASE DiscoveryEnds
  <2>1. bmsPresent' \in BOOLEAN /\ assistPresent' \in BOOLEAN
    BY <1>0, <1>5, ObdFacts DEF DiscoveryEnds, ObdFound, Discovered, ProbePackFail, ProbeAssist
  <2> QED
    BY <1>0, <1>5, <2>1, DiscoveryFacts
<1>6. CASE DiscoverFail
  BY <1>0, <1>6 DEF DiscoverFail
<1>7. CASE PollRequest
  BY <1>0, <1>7, RequestsFacts DEF AsksEngine, AsksBms
<1>8. CASE PollIdle
  BY <1>0, <1>8 DEF PollIdle
<1>9. CASE QueryAnswer \/ QueryFail \/ PollDidReply \/ PollDidFail
  BY <1>0, <1>9, PollEnds
<1>10. CASE IdleEnd
  BY <1>0, <1>10 DEF IdleEnd, return
<1>11. CASE Publish
  BY <1>0, <1>11 DEF Publish
<1>12. CASE onTelltales
  BY <1>0, <1>12, TelltalesFacts DEF RawCalls
<1>13. CASE Stop
  BY <1>0, <1>13 DEF Stop
<1>14. CASE StopJoined
  BY <1>0, <1>14 DEF StopJoined
<1>15. ASSUME NEW kind \in Records, BmsReplies(kind)
       PROVE  ThreadInv'
  BY <1>0, <1>15 DEF BmsReplies
<1>16. ASSUME NEW lit \in SUBSET Lamps, Broadcast(lit)
       PROVE  ThreadInv'
  BY <1>0, <1>16 DEF Broadcast
<1>17. ASSUME NEW ecus \in Movers, Moves(ecus)
       PROVE  ThreadInv'
  BY <1>0, <1>17, MovesFacts
<1>18. CASE Advance
  BY <1>0, <1>18 DEF Advance
<1>19. CASE UNCHANGED vars
  BY <1>0, <1>19
<1>20. CASE DiscoverNextBlock
  BY <1>0, <1>20, NextBlockFacts
<1> QED
  BY <1>1, <1>2, <1>3, <1>4, <1>5, <1>6, <1>7, <1>8, <1>9, <1>10, <1>11, <1>12, <1>13,
     <1>14, <1>15, <1>16, <1>17, <1>18, <1>19, <1>20, Steps

LEMMA ClockStep ==
    ThreadInv /\ ClockInv /\ [Next]_vars => ClockInv'
<1> SUFFICES ASSUME ThreadInv, ClockInv, [Next]_vars
             PROVE  ClockInv'
  OBVIOUS
<1>0. HeardWaits
  BY DEF ThreadInv
<1> USE Durations DEF ClockInv
<1>1. CASE LoopTop
  BY <1>1 DEF LoopTop
<1>2. CASE LoopExit
  BY <1>2 DEF LoopExit
<1>3. CASE Wake
  BY <1>3 DEF Wake
<1>4. CASE Probes
  BY <1>0, <1>4, ProbeFacts
<1>5. CASE DiscoveryEnds
  BY <1>5, DiscoveryFacts
<1>6. CASE DiscoverFail
  BY <1>6 DEF DiscoverFail
<1>7. CASE PollRequest
  BY <1>0, <1>7, RequestsFacts DEF AsksEngine, AsksBms
<1>8. CASE PollIdle
  BY <1>8 DEF PollIdle
<1>9. CASE QueryAnswer \/ QueryFail \/ PollDidReply \/ PollDidFail
  BY <1>9, PollEnds
<1>10. CASE IdleEnd
  BY <1>10 DEF IdleEnd
<1>11. CASE Publish
  BY <1>11 DEF Publish
<1>12. CASE onTelltales
  BY <1>0, <1>12, TelltalesFacts
<1>13. CASE Stop
  BY <1>13 DEF Stop
<1>14. CASE StopJoined
  BY <1>14 DEF StopJoined
<1>15. ASSUME NEW kind \in Records, BmsReplies(kind)
       PROVE  ClockInv'
  BY <1>15 DEF BmsReplies
<1>16. ASSUME NEW lit \in SUBSET Lamps, Broadcast(lit)
       PROVE  ClockInv'
  BY <1>16 DEF Broadcast
<1>17. ASSUME NEW ecus \in Movers, Moves(ecus)
       PROVE  ClockInv'
  BY <1>17 DEF Moves
<1>18. CASE Advance
  BY <1>18 DEF Advance
<1>19. CASE UNCHANGED vars
  BY <1>19
<1>20. CASE DiscoverNextBlock
  BY <1>20, NextBlockFacts
<1> QED
  BY <1>1, <1>2, <1>3, <1>4, <1>5, <1>6, <1>7, <1>8, <1>9, <1>10, <1>11, <1>12, <1>13,
     <1>14, <1>15, <1>16, <1>17, <1>18, <1>19, <1>20, Steps

LEMMA CallStep ==
    ThreadInv /\ ClockInv /\ CallInv /\ ItemsInv /\ [Next]_vars => CallInv'
<1> SUFFICES ASSUME ThreadInv, ClockInv, CallInv, ItemsInv, [Next]_vars
             PROVE  CallInv'
  OBVIOUS
<1>0. HeardWaits
  BY DEF ThreadInv
<1> USE Durations DEF ClockInv, CallInv, Blocking, RawCalls, IsoCalls
<1>1. CASE LoopTop
  BY <1>1, RequestFacts DEF LoopTop
<1>2. CASE LoopExit
  BY <1>2 DEF LoopExit
<1>3. CASE Wake
  BY <1>3 DEF Wake, return
<1>4. CASE Probes
  BY <1>0, <1>4, ProbeFacts
<1>5. CASE DiscoveryEnds
  BY <1>5, DiscoveryFacts
<1>6. CASE DiscoverFail
  BY <1>6 DEF DiscoverFail
<1>7. CASE PollRequest
  <2>1. wakeBy' = now + Fast /\ pc' \in {"query", "pollDid"} /\ now' = now
    BY <1>0, <1>7, RequestsFacts DEF AsksEngine, AsksBms
  <2> QED
    BY <2>1
<1>8. CASE PollIdle
  BY <1>8, IdleFacts DEF PollIdle
<1>9. CASE QueryAnswer \/ QueryFail \/ PollDidReply \/ PollDidFail
  <2>1. wakeBy' = 0 /\ pc' \in {"publish", "top"} /\ now' = now
    BY <1>9, PollEnds
  <2> QED
    BY <2>1
<1>10. CASE IdleEnd
  BY <1>10 DEF IdleEnd, return
<1>11. CASE Publish
  BY <1>11 DEF Publish
<1>12. CASE onTelltales
  <2>1. /\ now' = now
        /\ \/ pc' = "publish" /\ wakeBy' = 0
           \/ pc' = pc /\ wakeBy' = wakeBy
    BY <1>0, <1>12, TelltalesFacts
  <2> QED
    BY <2>1
<1>13. CASE Stop
  BY <1>13 DEF Stop
<1>14. CASE StopJoined
  BY <1>14 DEF StopJoined
<1>15. ASSUME NEW kind \in Records, BmsReplies(kind)
       PROVE  CallInv'
  BY <1>15 DEF BmsReplies
<1>16. ASSUME NEW lit \in SUBSET Lamps, Broadcast(lit)
       PROVE  CallInv'
  BY <1>16 DEF Broadcast
<1>17. ASSUME NEW ecus \in Movers, Moves(ecus)
       PROVE  CallInv'
  BY <1>17 DEF Moves
<1>18. CASE Advance
  BY <1>18 DEF Advance
<1>19. CASE UNCHANGED vars
  BY <1>19
<1>20. CASE DiscoverNextBlock
  BY <1>20, NextBlockFacts
<1> QED
  BY <1>1, <1>2, <1>3, <1>4, <1>5, <1>6, <1>7, <1>8, <1>9, <1>10, <1>11, <1>12, <1>13,
     <1>14, <1>15, <1>16, <1>17, <1>18, <1>19, <1>20, Steps

LEMMA ChainStep ==
    ThreadInv /\ ChainInv /\ [Next]_vars => ChainInv'
<1> SUFFICES ASSUME ThreadInv, ChainInv, [Next]_vars
             PROVE  ChainInv'
  OBVIOUS
<1>0. HeardWaits
  BY DEF ThreadInv
<1>1. CASE LoopTop
  BY <1>1, BlockFacts DEF LoopTop, ChainInv
<1>2. CASE DiscoverNextBlock
  <2>1. /\ block \in 1 .. Len(Blocks) /\ block < Len(Blocks) /\ block' = block + 1
        /\ found' = found \cup Blocks[block]
    BY <1>2, NextBlockFacts DEF ChainInv
  <2>2. block = 1 \/ Blocks[1] \subseteq found
    BY <2>1 DEF ChainInv
  <2> QED
    BY <2>1, <2>2, BlockFacts, EcuFacts DEF ChainInv
<1>3. CASE DiscoverObd
  <2>1. block' = 0 /\ found' = {} /\ pc' # "discover"
    BY <1>3, ObdFacts DEF ObdFound, Discovered, return
  <2> QED
    BY <2>1, EcuFacts DEF ChainInv
<1>4. CASE DiscoverFail
  <2>1. block' = 0 /\ UNCHANGED found /\ pc' # "discover"
    BY <1>4 DEF DiscoverFail
  <2> QED
    BY <2>1, EcuFacts DEF ChainInv
<1>5. ASSUME UNCHANGED chainVars, pc' = "discover" => pc = "discover"
      PROVE  ChainInv'
  BY <1>5 DEF ChainInv
<1>6. CASE LoopExit \/ Wake
  BY <1>5, <1>6 DEF LoopExit, Wake, return
<1>7. CASE ProbePackAnswer \/ ProbePackFail \/ ProbeAssist
  BY <1>5, <1>7 DEF ProbePackAnswer, ProbePackFail, ProbeAssist, Discovered, return
<1>8. CASE PollRequest \/ PollIdle
  BY <1>5, <1>8 DEF PollRequest, PollIdle
<1>9. CASE QueryAnswer \/ QueryFail \/ PollDidReply \/ PollDidFail
  <2>1. pc' # "discover"
    BY <1>9, PollEnds
  <2>2. UNCHANGED chainVars
    BY <1>9 DEF QueryAnswer, QueryFail, PollDidReply, PollDidFail
  <2> QED
    BY <1>5, <2>1, <2>2
<1>10. CASE IdleEnd \/ Publish
  BY <1>5, <1>10 DEF IdleEnd, Publish, return
<1>11. CASE onTelltales
  <2>1. UNCHANGED chainVars
    BY <1>11 DEF onTelltales
  <2> QED
    BY <1>0, <1>5, <1>11, <2>1, TelltalesFacts
<1>12. CASE Stop \/ StopJoined
  BY <1>5, <1>12 DEF Stop, StopJoined
<1>13. ASSUME NEW kind \in Records, BmsReplies(kind)
       PROVE  ChainInv'
  BY <1>5, <1>13 DEF BmsReplies
<1>14. ASSUME NEW lit \in SUBSET Lamps, Broadcast(lit)
       PROVE  ChainInv'
  BY <1>5, <1>14 DEF Broadcast
<1>15. ASSUME NEW ecus \in Movers, Moves(ecus)
       PROVE  ChainInv'
  BY <1>5, <1>15 DEF Moves
<1>16. CASE Advance \/ UNCHANGED vars
  BY <1>5, <1>16 DEF Advance
<1> QED
  BY <1>1, <1>2, <1>3, <1>4, <1>6, <1>7, <1>8, <1>9, <1>10, <1>11, <1>12, <1>13, <1>14,
     <1>15, <1>16, Steps DEF Probes, DiscoveryEnds
-----------------------------------------------------------------------------
(***************************************************************************)
(* The poller.                                                             *)
(***************************************************************************)
LEMMA ClearStarts == Started(clear, {})
<1>1. /\ clear.items = <<>> /\ clear.unanswered = 0 /\ Len(clear.items) = 0
      /\ clear.items \in Seq(Items(Keys))
      /\ clear \in [items: Seq(Items(Keys)), unanswered: Nat]
  BY DEF clear
<1>2. PidsOf(clear) = {}
  BY DEF PidsOf, clear
<1> QED
  BY <1>1, <1>2 DEF Started, PollerOk

\* A PID or DID that is added goes last, and is due at once.
LEMMA AddStarts ==
    ASSUME NEW p, NEW keys, Started(p, keys), NEW key \in Keys, key \notin keys,
           keys = {} \/ key # "SPEED"
    PROVE  Started(addKey(p, key), keys \cup {key})
<1> DEFINE q == addKey(p, key)
           new == [pid |-> key, interval |-> interval(key), due |-> 0, lastAnswer |-> -1]
<1>1. PollerOk(p, Keys) /\ key \notin PidsOf(p) /\ interval(key) \in Nat \ {0}
  BY Intervals DEF Started
<1>2. /\ PollerOk(q, Keys) /\ PidsOf(q) = PidsOf(p) \cup {key}
      /\ q.unanswered = p.unanswered /\ Len(q.items) = Len(p.items) + 1
      /\ \A i \in 1 .. Len(p.items) : q.items[i] = p.items[i]
      /\ q.items[Len(p.items) + 1] = new
  BY <1>1, AddFacts DEF addKey
<1>3. Len(p.items) \in Nat /\ \A i \in 1 .. Len(p.items) : p.items[i].pid \in PidsOf(p)
  BY <1>1, ItemFacts
<1> HIDE DEF q
<1>4. ASSUME NEW i \in 1 .. Len(q.items)
      PROVE  /\ q.items[i].interval = interval(q.items[i].pid)
             /\ q.items[i].due = 0 /\ q.items[i].lastAnswer = Never
  <2>1. i \in 1 .. Len(p.items) \/ i = Len(p.items) + 1
    BY <1>2, <1>3
  <2>2. CASE i \in 1 .. Len(p.items)
    BY <1>2, <2>2 DEF Started
  <2>3. CASE i = Len(p.items) + 1
    BY <1>2, <2>3 DEF Never
  <2> QED
    BY <2>1, <2>2, <2>3
<1>5. ASSUME "SPEED" \in keys \cup {key}
      PROVE  Len(q.items) >= 1 /\ q.items[1].pid = "SPEED"
  <2>1. CASE keys = {}
    <3>1. Len(p.items) = 0
      <4>1. PidsOf(p) = {}
        BY <2>1 DEF Started
      <4> QED
        BY <1>3, <4>1
    <3> QED
      BY <1>2, <1>5, <2>1, <3>1
  <2>2. CASE keys # {} /\ key # "SPEED"
    <3>1. Len(p.items) >= 1 /\ p.items[1].pid = "SPEED"
      BY <1>5, <2>2 DEF Started
    <3> QED
      BY <1>2, <1>3, <3>1
  <2> QED
    BY <2>1, <2>2
<1> QED
  BY <1>2, <1>4, <1>5 DEF Started, q

\* A wanted PID is added if it is advertised.
LEMMA WantStarts ==
    ASSUME NEW p, NEW keys, Started(p, keys), NEW pids, NEW pid, keys = {} \/ pid # "SPEED"
    PROVE  Started(want(p, pid, pids), keys \cup ({pid} \cap pids \cap Pids))
<1>1. CASE pid \notin pids \cap Pids
  <2>1. want(p, pid, pids) = p /\ keys \cup ({pid} \cap pids \cap Pids) = keys
    BY <1>1 DEF want
  <2> QED
    BY <2>1
<1>2. CASE pid \in pids \cap Pids
  <2>1. want(p, pid, pids) = addKey(p, pid)
        /\ keys \cup ({pid} \cap pids \cap Pids) = keys \cup {pid}
    BY <1>2 DEF want
  <2>2. CASE pid \in keys
    <3>1. addKey(p, pid) = p /\ keys \cup {pid} = keys
      BY <2>2 DEF addKey, add, Started
    <3> QED
      BY <2>1, <3>1
  <2>3. CASE pid \notin keys
    BY <1>2, <2>1, <2>3, AddStarts DEF Keys
  <2> QED
    BY <2>2, <2>3
<1> QED
  BY <1>1, <1>2

\* A discovery starts to poll what is wanted and advertised.
LEMMA PollerStarts ==
    ASSUME NEW pids
    PROVE  Started(pollerFor(pids), pids \cap Pids)
<1> DEFINE A(pid) == {pid} \cap pids \cap Pids
           speed   == want(clear, "SPEED", pids)
           rpm     == want(speed, "RPM", pids)
           coolant == want(rpm, "COOLANT_TEMP", pids)
           fuel    == want(coolant, "FUEL_LEVEL", pids)
           voltage == want(fuel, "MODULE_VOLTAGE", pids)
           ambient == want(voltage, "AMBIENT_TEMP", pids)
           all     == want(ambient, "ODOMETER", pids)
           k1 == {} \cup A("SPEED")
           k2 == k1 \cup A("RPM")
           k3 == k2 \cup A("COOLANT_TEMP")
           k4 == k3 \cup A("FUEL_LEVEL")
           k5 == k4 \cup A("MODULE_VOLTAGE")
           k6 == k5 \cup A("AMBIENT_TEMP")
           k7 == k6 \cup A("ODOMETER")
<1>0. pollerFor(pids) = all
  BY DEF pollerFor, wanted
<1>8. k7 = pids \cap Pids
  BY DEF Pids
<1> HIDE DEF speed, rpm, coolant, fuel, voltage, ambient, all, k1, k2, k3, k4, k5, k6, k7
<1>1. Started(speed, k1)
  BY ClearStarts, WantStarts DEF speed, k1
<1>2. Started(rpm, k2)
  BY <1>1, WantStarts DEF rpm, k2
<1>3. Started(coolant, k3)
  BY <1>2, WantStarts DEF coolant, k3
<1>4. Started(fuel, k4)
  BY <1>3, WantStarts DEF fuel, k4
<1>5. Started(voltage, k5)
  BY <1>4, WantStarts DEF voltage, k5
<1>6. Started(ambient, k6)
  BY <1>5, WantStarts DEF ambient, k6
<1>7. Started(all, k7)
  BY <1>6, WantStarts DEF all, k7
<1> QED
  BY <1>0, <1>7, <1>8

\* The poller through a discovery: the PIDs, then what the battery ECU is asked for.
LEMMA DiscoveryPolls ==
    ASSUME PolledInv
    PROVE  /\ DiscoverObd => Started(poller', supported' \cap Pids)
           /\ ProbePackAnswer
                => Started(poller', (supported' \cap Pids) \cup (Dids \ {"ASSIST"}))
           /\ ProbePackFail => UNCHANGED poller /\ Started(poller', supported' \cap Pids)
           /\ ProbeAssist
                => Started(poller', (supported' \cap Pids)
                                    \cup (IF assistPresent' THEN Dids ELSE Dids \ {"ASSIST"}))
<1>1. ASSUME DiscoverObd
      PROVE  Started(poller', supported' \cap Pids)
  <2>1. poller' = pollerFor(supported')
    BY <1>1, ObdFacts DEF ObdFound
  <2> QED
    BY <2>1, PollerStarts
<1>2. ASSUME ProbePackAnswer
      PROVE  Started(poller', (supported' \cap Pids) \cup (Dids \ {"ASSIST"}))
  <2> DEFINE one   == addKey(poller, "DRIVE")
             two   == addKey(one, "PACK")
             three == addKey(two, "RANGE")
             k == supported' \cap Pids
  <2>1. poller' = three /\ Started(poller, k)
    BY <1>2 DEF ProbePackAnswer, PolledInv
  <2>2. /\ "DRIVE" \in Keys /\ "DRIVE" \notin k /\ "DRIVE" # "SPEED"
        /\ "PACK" \in Keys /\ "PACK" \notin k \cup {"DRIVE"} /\ "PACK" # "SPEED"
        /\ "RANGE" \in Keys /\ "RANGE" \notin (k \cup {"DRIVE"}) \cup {"PACK"}
        /\ "RANGE" # "SPEED"
    BY KeyFacts DEF Keys
  <2>3. ((k \cup {"DRIVE"}) \cup {"PACK"}) \cup {"RANGE"} = k \cup (Dids \ {"ASSIST"})
    BY DEF Dids
  <2> HIDE DEF one, two, three, k
  <2>4. Started(one, k \cup {"DRIVE"})
    BY <2>1, <2>2, AddStarts DEF one
  <2>5. Started(two, (k \cup {"DRIVE"}) \cup {"PACK"})
    BY <2>2, <2>4, AddStarts DEF two
  <2>6. Started(three, ((k \cup {"DRIVE"}) \cup {"PACK"}) \cup {"RANGE"})
    BY <2>2, <2>5, AddStarts DEF three
  <2> QED
    BY <2>1, <2>3, <2>6 DEF k
<1>3. ASSUME ProbePackFail
      PROVE  UNCHANGED poller /\ Started(poller', supported' \cap Pids)
  BY <1>3 DEF ProbePackFail, PolledInv
<1>4. ASSUME ProbeAssist
      PROVE  Started(poller', (supported' \cap Pids)
                              \cup (IF assistPresent' THEN Dids ELSE Dids \ {"ASSIST"}))
  <2> DEFINE k == (supported' \cap Pids) \cup (Dids \ {"ASSIST"})
  <2>1. Started(poller, k)
    BY <1>4 DEF ProbeAssist, PolledInv
  <2>2. \/ assistPresent' = TRUE /\ poller' = addKey(poller, "ASSIST")
        \/ assistPresent' = FALSE /\ poller' = poller
    BY <1>4 DEF ProbeAssist
  <2>3. CASE assistPresent' = TRUE /\ poller' = addKey(poller, "ASSIST")
    <3>1. "ASSIST" \in Keys /\ "ASSIST" \notin k /\ "ASSIST" # "SPEED"
      BY KeyFacts DEF Keys
    <3>2. k \cup {"ASSIST"} = (supported' \cap Pids) \cup Dids
      BY DEF Dids
    <3> HIDE DEF k
    <3>3. Started(poller', k \cup {"ASSIST"})
      BY <2>1, <2>3, <3>1, AddStarts
    <3> QED
      BY <2>3, <3>2, <3>3
  <2>4. CASE assistPresent' = FALSE /\ poller' = poller
    BY <2>1, <2>4
  <2> QED
    BY <2>2, <2>3, <2>4
<1> QED
  BY <1>1, <1>2, <1>3, <1>4


\* A discovery leaves a poller before its first request.
LEMMA DiscoveryStarts ==
    ASSUME PolledInv, Probes \/ DiscoveryEnds
    PROVE  \E keys : Started(poller', keys)
BY DiscoveryPolls DEF Probes, DiscoveryEnds

\* It is to poll what the first block advertises.
LEMMA DiscoveryFirst ==
    ASSUME PolledInv, ChainInv, Probes \/ DiscoveryEnds
    PROVE  \E keys : Started(poller', keys) /\ Blocks[1] \cap Pids \subseteq keys
<1>1. Blocks[1] \subseteq supported'
  <2>1. CASE DiscoverObd
    BY <2>1, ObdFacts
  <2>2. CASE ProbePackAnswer \/ ProbePackFail \/ ProbeAssist
    BY <2>2 DEF PolledInv, ProbePackAnswer, ProbePackFail, ProbeAssist, Discovered
  <2> QED
    BY <2>1, <2>2 DEF Probes, DiscoveryEnds
<1>2. CASE DiscoverObd \/ ProbePackFail
  BY <1>1, <1>2, DiscoveryPolls
<1>3. CASE ProbePackAnswer
  BY <1>1, <1>3, DiscoveryPolls
<1>4. CASE ProbeAssist
  BY <1>1, <1>4, DiscoveryPolls
<1> QED
  BY <1>2, <1>3, <1>4 DEF Probes, DiscoveryEnds

\* A request moves the deadline of the most overdue item, and counts.
LEMMA RequestedItems ==
    ASSUME HeardWaits, ItemsInv, ClockInv, PollRequest
    PROVE  /\ PollerOk(poller', Keys) /\ PidsOf(poller') = PidsOf(poller)
           /\ Len(poller'.items) = Len(poller.items)
           /\ poller'.unanswered = poller.unanswered + 1
           /\ \E k \in 1 .. Len(poller.items) :
                 /\ poller.items[k].pid = current' /\ poller.items[k].due <= loopNow
                 /\ \A i \in 1 .. Len(poller.items) :
                       /\ poller'.items[i].pid = poller.items[i].pid
                       /\ poller'.items[i].interval = poller.items[i].interval
                       /\ poller'.items[i].lastAnswer = poller.items[i].lastAnswer
                       /\ poller'.items[i].due = IF i = k
                                                 THEN loopNow + poller.items[k].interval
                                                 ELSE poller.items[i].due
<1> DEFINE key == nextDue(poller, loopNow)
<1>1. /\ PollerOk(poller, Keys) /\ loopNow \in Nat /\ DueItems(poller, loopNow) # {}
      /\ poller' = markRequested(poller, key, loopNow) /\ current' = key
  BY RequestsFacts DEF ItemsInv, ClockInv
<1>2. PICK k \in 1 .. Len(poller.items) : /\ key = poller.items[k].pid
                                          /\ poller.items[k].due <= loopNow
  BY <1>1, NextDueFacts
<1>3. key \in PidsOf(poller)
  BY <1>1, <1>2, ItemFacts
<1> HIDE DEF key
<1>4. /\ PollerOk(poller', Keys) /\ PidsOf(poller') = PidsOf(poller)
      /\ Len(poller'.items) = Len(poller.items)
      /\ poller'.unanswered = poller.unanswered + 1
      /\ \A i \in 1 .. Len(poller.items) :
            /\ poller'.items[i].pid = poller.items[i].pid
            /\ poller'.items[i].interval = poller.items[i].interval
            /\ poller'.items[i].lastAnswer = poller.items[i].lastAnswer
            /\ poller'.items[i].due = IF poller.items[i].pid = key
                                      THEN loopNow + poller.items[i].interval
                                      ELSE poller.items[i].due
  BY <1>1, <1>3, MarkRequestedFacts
<1>5. \A i \in 1 .. Len(poller.items) : poller.items[i].pid = key <=> i = k
  BY <1>1, <1>2 DEF PollerOk
<1>6. \A i \in 1 .. Len(poller.items) :
         /\ poller'.items[i].pid = poller.items[i].pid
         /\ poller'.items[i].interval = poller.items[i].interval
         /\ poller'.items[i].lastAnswer = poller.items[i].lastAnswer
         /\ poller'.items[i].due = IF i = k THEN loopNow + poller.items[k].interval
                                            ELSE poller.items[i].due
  <2> TAKE i \in 1 .. Len(poller.items)
  <2>1. /\ poller'.items[i].pid = poller.items[i].pid
        /\ poller'.items[i].interval = poller.items[i].interval
        /\ poller'.items[i].lastAnswer = poller.items[i].lastAnswer
    BY <1>4
  <2>2. CASE i = k
    BY <1>4, <1>5, <2>2
  <2>3. CASE i # k
    BY <1>4, <1>5, <2>3
  <2> QED
    BY <2>1, <2>2, <2>3
<1>7. poller.items[k].pid = current' /\ poller.items[k].due <= loopNow
  BY <1>1, <1>2
<1> QED
  BY <1>4, <1>6, <1>7, Zenon

\* An answer is noted for its item, and ends the streak.
LEMMA AnsweredItems ==
    ASSUME ItemsInv, ClockInv, current \in PidsOf(poller),
           poller' = markAnswered(poller, current, now)
    PROVE  /\ PollerOk(poller', Keys) /\ PidsOf(poller') = PidsOf(poller)
           /\ Len(poller'.items) = Len(poller.items)
           /\ poller'.unanswered = 0
           /\ \A i \in 1 .. Len(poller.items) :
                 /\ poller'.items[i].pid = poller.items[i].pid
                 /\ poller'.items[i].interval = poller.items[i].interval
                 /\ poller'.items[i].due = poller.items[i].due
                 /\ poller'.items[i].lastAnswer = IF poller.items[i].pid = current THEN now
                                                  ELSE poller.items[i].lastAnswer
<1>1. PollerOk(poller, Keys) /\ now \in Nat
  BY DEF ItemsInv, ClockInv
<1> QED
  BY <1>1, MarkAnsweredFacts

\* The end of a poll leaves the items but for the answer of the one that was asked for.
LEMMA EndedItems ==
    ASSUME ItemsInv, ClockInv, QueryAnswer \/ QueryFail \/ PollDidReply \/ PollDidFail
    PROVE  /\ PollerOk(poller', Keys) /\ PidsOf(poller') = PidsOf(poller)
           /\ Len(poller'.items) = Len(poller.items)
           /\ \A i \in 1 .. Len(poller.items) :
                 /\ poller'.items[i].pid = poller.items[i].pid
                 /\ poller'.items[i].interval = poller.items[i].interval
                 /\ poller'.items[i].due = poller.items[i].due
                 /\ \/ poller'.items[i].lastAnswer = now /\ poller.items[i].pid = current
                    \/ poller'.items[i].lastAnswer = poller.items[i].lastAnswer
<1>1. current \in PidsOf(poller)
  BY PollEnds DEF ItemsInv
<1>2. CASE poller' = poller
  BY <1>2 DEF ItemsInv
<1>3. CASE poller' = markAnswered(poller, current, now)
  BY <1>1, <1>3, AnsweredItems
<1> QED
  BY <1>2, <1>3, PollEnds

LEMMA ItemsStep ==
    ThreadInv /\ ClockInv /\ PolledInv /\ ItemsInv /\ [Next]_vars => ItemsInv'
<1> SUFFICES ASSUME ThreadInv, ClockInv, PolledInv, ItemsInv, [Next]_vars
             PROVE  ItemsInv'
  OBVIOUS
<1>0. HeardWaits /\ now \in Nat /\ loopNow \in Nat /\ loopNow <= now
  BY DEF ThreadInv, ClockInv
<1>1. ASSUME UNCHANGED poller, now' \in Nat, now <= now',
             current' \in Keys \cup {NoKey},
             pc' \in {"query", "pollDid"} => pc' = pc /\ current' = current
      PROVE  ItemsInv'
  <2>1. /\ Len(poller.items) \in Nat
        /\ \A i \in 1 .. Len(poller.items) : /\ poller.items[i].due \in Nat
                                             /\ poller.items[i].interval \in Nat
                                             /\ poller.items[i].lastAnswer \in Nat \cup {-1}
    BY ItemFacts DEF ItemsInv
  <2>2. PollerOk(poller', Keys) /\ PidsOf(poller') = PidsOf(poller) /\ poller' = poller
    BY <1>1 DEF ItemsInv
  <2>3. ASSUME NEW i \in 1 .. Len(poller.items)
        PROVE  /\ poller.items[i].interval = interval(poller.items[i].pid)
               /\ poller.items[i].due <= now' + poller.items[i].interval
               /\ poller.items[i].lastAnswer <= now'
    <3>1. /\ poller.items[i].interval = interval(poller.items[i].pid)
          /\ poller.items[i].due <= now + poller.items[i].interval
          /\ poller.items[i].lastAnswer <= now
      BY DEF ItemsInv
    <3>2. /\ poller.items[i].due \in Int /\ poller.items[i].interval \in Int
          /\ poller.items[i].lastAnswer \in Int /\ now \in Int /\ now' \in Int
          /\ now <= now'
      BY <1>0, <1>1, <2>1
    <3> QED
      BY <3>1, <3>2
  <2>4. /\ pc' = "query" => current' \in Pids \cap PidsOf(poller)
        /\ pc' = "pollDid" => current' \in Dids \cap PidsOf(poller)
    BY <1>1 DEF ItemsInv
  <2> QED
    BY <1>1, <2>2, <2>3, <2>4 DEF ItemsInv
<1>2. NoKey \in Keys \cup {NoKey} /\ current \in Keys \cup {NoKey}
  BY DEF ItemsInv
<1>3. CASE Probes \/ DiscoveryEnds
  <2>1. PICK keys : Started(poller', keys)
    BY <1>3, DiscoveryStarts
  <2>2. now' = now /\ current' \in Keys \cup {NoKey} /\ pc' \notin {"query", "pollDid"}
    BY <1>0, <1>3, ProbeFacts, DiscoveryFacts, KeyFacts DEF Keys
  <2>3. /\ PollerOk(poller', Keys)
        /\ \A i \in 1 .. Len(poller'.items) :
              /\ poller'.items[i].interval = interval(poller'.items[i].pid)
              /\ poller'.items[i].due = 0 /\ poller'.items[i].lastAnswer = Never
    BY <2>1 DEF Started
  <2>4. \A i \in 1 .. Len(poller'.items) : poller'.items[i].interval \in Nat
    BY <2>3, ItemFacts
  <2> QED
    BY <1>0, <2>2, <2>3, <2>4 DEF ItemsInv, Never
<1>4. CASE PollRequest
  <2>1. /\ PollerOk(poller', Keys) /\ PidsOf(poller') = PidsOf(poller)
        /\ Len(poller'.items) = Len(poller.items) /\ now' = now
    BY <1>0, <1>4, RequestedItems, RequestsFacts DEF AsksEngine, AsksBms
  <2>2. PICK k \in 1 .. Len(poller.items) :
           /\ poller.items[k].pid = current'
           /\ \A i \in 1 .. Len(poller.items) :
                 /\ poller'.items[i].pid = poller.items[i].pid
                 /\ poller'.items[i].interval = poller.items[i].interval
                 /\ poller'.items[i].lastAnswer = poller.items[i].lastAnswer
                 /\ poller'.items[i].due = IF i = k
                                           THEN loopNow + poller.items[k].interval
                                           ELSE poller.items[i].due
    BY <1>0, <1>4, RequestedItems
  <2>3. current' \in Keys /\ current' \in PidsOf(poller')
    BY <2>1, <2>2, ItemFacts DEF ItemsInv
  <2>4. (pc' = "query" /\ current' \in Pids) \/ (pc' = "pollDid" /\ current' \in Dids)
    BY <1>0, <1>4, RequestsFacts DEF AsksEngine, AsksBms
  <2>5. \A i \in 1 .. Len(poller.items) : /\ poller.items[i].due \in Nat
                                          /\ poller.items[i].interval \in Nat
    BY ItemFacts DEF ItemsInv
  <2>6. \A i \in 1 .. Len(poller.items) :
           poller'.items[i].due <= now + poller'.items[i].interval
    BY <1>0, <2>2, <2>5, SMTT(30) DEF ItemsInv
  <2> QED
    BY <2>1, <2>2, <2>3, <2>4, <2>6 DEF ItemsInv
<1>5. CASE QueryAnswer \/ QueryFail \/ PollDidReply \/ PollDidFail
  <2>1. now' = now /\ current' = NoKey /\ pc' \notin {"query", "pollDid"}
    BY <1>5, PollEnds
  <2>2. /\ PollerOk(poller', Keys) /\ Len(poller'.items) = Len(poller.items)
        /\ \A i \in 1 .. Len(poller.items) :
              /\ poller'.items[i].pid = poller.items[i].pid
              /\ poller'.items[i].interval = poller.items[i].interval
              /\ poller'.items[i].due = poller.items[i].due
              /\ \/ poller'.items[i].lastAnswer = now
                 \/ poller'.items[i].lastAnswer = poller.items[i].lastAnswer
    BY <1>5, EndedItems
  <2> QED
    BY <1>0, <2>1, <2>2 DEF ItemsInv
<1>6. CASE LoopTop
  BY <1>0, <1>1, <1>2, <1>6 DEF LoopTop
<1>7. CASE LoopExit
  BY <1>0, <1>1, <1>2, <1>7 DEF LoopExit
<1>8. CASE Wake
  BY <1>0, <1>1, <1>2, <1>8 DEF Wake, return
<1>9. CASE DiscoverFail
  BY <1>0, <1>1, <1>2, <1>9 DEF DiscoverFail
<1>10. CASE PollIdle
  BY <1>0, <1>1, <1>2, <1>10 DEF PollIdle
<1>11. CASE IdleEnd
  BY <1>0, <1>1, <1>2, <1>11 DEF IdleEnd, return
<1>12. CASE Publish
  BY <1>0, <1>1, <1>2, <1>12 DEF Publish
<1>13. CASE onTelltales
  BY <1>0, <1>1, <1>2, <1>13, TelltalesFacts
<1>14. CASE Stop
  BY <1>0, <1>1, <1>2, <1>14 DEF Stop
<1>15. CASE StopJoined
  BY <1>0, <1>1, <1>2, <1>15 DEF StopJoined
<1>16. ASSUME NEW kind \in Records, BmsReplies(kind)
       PROVE  ItemsInv'
  BY <1>0, <1>1, <1>2, <1>16 DEF BmsReplies
<1>17. ASSUME NEW lit \in SUBSET Lamps, Broadcast(lit)
       PROVE  ItemsInv'
  BY <1>0, <1>1, <1>2, <1>17 DEF Broadcast
<1>18. ASSUME NEW ecus \in Movers, Moves(ecus)
       PROVE  ItemsInv'
  BY <1>0, <1>1, <1>2, <1>18 DEF Moves
<1>19. CASE Advance
  BY <1>0, <1>1, <1>2, <1>19 DEF Advance
<1>20. CASE UNCHANGED vars
  BY <1>0, <1>1, <1>2, <1>20
<1>21. CASE DiscoverNextBlock
  BY <1>0, <1>1, <1>2, <1>21, NextBlockFacts
<1> QED
  BY <1>3, <1>4, <1>5, <1>6, <1>7, <1>8, <1>9, <1>10, <1>11, <1>12, <1>13, <1>14, <1>15,
     <1>16, <1>17, <1>18, <1>19, <1>20, <1>21, Steps
-----------------------------------------------------------------------------
(***************************************************************************)
(* What is polled is what is advertised.                                   *)
(***************************************************************************)
LEMMA PolledStep ==
    ThreadInv /\ ClockInv /\ ChainInv /\ ItemsInv /\ PolledInv /\ [Next]_vars => PolledInv'
<1> SUFFICES ASSUME ThreadInv, ClockInv, ChainInv, ItemsInv, PolledInv, [Next]_vars
             PROVE  PolledInv'
  OBVIOUS
<1>0. HeardWaits /\ discovered \in BOOLEAN
  BY DEF ThreadInv
<1>1. ASSUME PidsOf(poller') = PidsOf(poller),
             UNCHANGED <<supported, bmsPresent, assistPresent>>,
             discovered' = FALSE \/ discovered' = discovered,
             pc' \in {"probePack", "probeAssist"} => UNCHANGED <<pc, poller>>,
             pc \in {"probePack", "probeAssist"} => pc' = pc
      PROVE  PolledInv'
  <2>1. CapableKeys' = CapableKeys
    BY <1>1 DEF CapableKeys
  <2>2. /\ supported' \subseteq Advertised
        /\ discovered' \/ pc' \in {"probePack", "probeAssist"} => Blocks[1] \subseteq supported'
    BY <1>1 DEF PolledInv
  <2>3. pc' \notin {"probePack", "probeAssist"} => PidsOf(poller') = CapableKeys'
    BY <1>1, <2>1 DEF PolledInv
  <2>4. CASE pc' \in {"probePack", "probeAssist"}
    <3>1. UNCHANGED <<pc, poller, supported, bmsPresent>>
      BY <1>1, <2>4
    <3> QED
      BY <2>2, <2>3, <3>1 DEF PolledInv
  <2> QED
    BY <2>2, <2>3, <2>4 DEF PolledInv
<1>2. CASE DiscoverObd /\ bmsOpen
  <2>1. /\ pc' = "probePack" /\ bmsPresent' = FALSE
        /\ Blocks[1] \subseteq supported' /\ supported' \subseteq Advertised
    BY <1>2, ObdFacts DEF ObdFound
  <2> QED
    BY <1>2, <2>1, DiscoveryPolls DEF PolledInv
<1>3. CASE ProbePackAnswer
  <2>1. /\ pc' = "probeAssist" /\ supported' = supported /\ bmsPresent' = TRUE
        /\ Blocks[1] \subseteq supported /\ supported \subseteq Advertised
    BY <1>3 DEF ProbePackAnswer, PolledInv
  <2> QED
    BY <1>3, <2>1, DiscoveryPolls DEF PolledInv
<1>4. CASE DiscoverObd /\ ~bmsOpen
  <2>1. /\ pc' = "poll" /\ bmsPresent' = FALSE /\ assistPresent' = FALSE
        /\ Blocks[1] \subseteq supported' /\ supported' \subseteq Advertised
    BY <1>4, ObdFacts DEF ObdFound, Discovered, return
  <2>2. PidsOf(poller') = supported' \cap Pids
    BY <1>4, DiscoveryPolls DEF Started
  <2> QED
    BY <2>1, <2>2 DEF PolledInv, CapableKeys
<1>5. CASE ProbePackFail
  <2>1. /\ pc' = "poll" /\ supported' = supported /\ pc \in {"probePack", "probeAssist"} /\ ~bmsPresent'
        /\ assistPresent' = FALSE
    BY <1>5 DEF ProbePackFail, Discovered, return, PolledInv
  <2>2. PidsOf(poller') = supported' \cap Pids
    BY <1>5, DiscoveryPolls DEF Started
  <2> QED
    BY <2>1, <2>2 DEF PolledInv, CapableKeys
<1>6. CASE ProbeAssist
  <2>1. pc' = "poll" /\ supported' = supported /\ pc \in {"probePack", "probeAssist"} /\ bmsPresent'
    BY <1>6 DEF ProbeAssist, Discovered, return, PolledInv
  <2>2. PidsOf(poller') = (supported' \cap Pids)
                          \cup (IF assistPresent' THEN Dids ELSE Dids \ {"ASSIST"})
    BY <1>6, DiscoveryPolls DEF Started
  <2>3. PidsOf(poller') = CapableKeys'
    BY <2>1, <2>2 DEF CapableKeys, Dids
  <2> QED
    BY <2>1, <2>3 DEF PolledInv
<1>7. CASE PollRequest
  <2>1. pc' \in {"query", "pollDid"} /\ pc = "poll" /\ UNCHANGED knownVars
    BY <1>0, <1>7, RequestsFacts DEF AsksEngine, AsksBms
  <2>2. PidsOf(poller') = PidsOf(poller)
    BY <1>0, <1>7, RequestedItems
  <2> QED
    BY <1>1, <2>1, <2>2
<1>8. CASE QueryAnswer \/ QueryFail \/ PollDidReply \/ PollDidFail
  <2>1. /\ pc \in {"query", "pollDid"} /\ pc' \in {"publish", "top"}
        /\ discovered' = FALSE \/ discovered' = discovered
        /\ UNCHANGED <<supported, bmsPresent, assistPresent>>
    BY <1>8, PollEnds
  <2>2. PidsOf(poller') = PidsOf(poller)
    BY <1>8, EndedItems
  <2> QED
    BY <1>1, <2>1, <2>2
<1>9. CASE LoopTop
  BY <1>1, <1>9 DEF LoopTop
<1>10. CASE LoopExit
  BY <1>1, <1>10 DEF LoopExit
<1>11. CASE Wake
  BY <1>1, <1>11 DEF Wake, return
<1>12. CASE DiscoverFail
  BY <1>1, <1>12 DEF DiscoverFail
<1>13. CASE PollIdle
  BY <1>1, <1>13 DEF PollIdle
<1>14. CASE IdleEnd
  BY <1>1, <1>14 DEF IdleEnd, return
<1>15. CASE Publish
  BY <1>1, <1>15 DEF Publish
<1>16. CASE onTelltales
  <2>1. /\ UNCHANGED <<knownVars, poller>> /\ pc \in RawCalls
        /\ pc' = pc \/ pc' = "publish"
    BY <1>0, <1>16, TelltalesFacts
  <2> QED
    BY <1>1, <2>1 DEF RawCalls
<1>17. CASE Stop
  BY <1>1, <1>17 DEF Stop
<1>18. CASE StopJoined
  BY <1>1, <1>18 DEF StopJoined
<1>19. ASSUME NEW kind \in Records, BmsReplies(kind)
       PROVE  PolledInv'
  BY <1>1, <1>19 DEF BmsReplies
<1>20. ASSUME NEW lit \in SUBSET Lamps, Broadcast(lit)
       PROVE  PolledInv'
  BY <1>1, <1>20 DEF Broadcast
<1>21. ASSUME NEW ecus \in Movers, Moves(ecus)
       PROVE  PolledInv'
  BY <1>1, <1>21 DEF Moves
<1>22. CASE Advance
  BY <1>1, <1>22 DEF Advance
<1>23. CASE UNCHANGED vars
  BY <1>1, <1>23
<1>24. CASE DiscoverNextBlock
  BY <1>1, <1>24, NextBlockFacts
<1> QED
  BY <1>2, <1>3, <1>4, <1>5, <1>6, <1>7, <1>8, <1>9, <1>10, <1>11, <1>12, <1>13, <1>14,
     <1>15, <1>16, <1>17, <1>18, <1>19, <1>20, <1>21, <1>22, <1>23, <1>24, Steps
     DEF Probes, DiscoveryEnds
-----------------------------------------------------------------------------
(***************************************************************************)
(* Values, records and what is handed to the host.                         *)
(***************************************************************************)
LEMMA SignalsMonotone ==
    ASSUME NEW S, NEW T, S \subseteq T
    PROVE  SignalsOf(S) \subseteq SignalsOf(T)
BY DEF SignalsOf

\* The PIDs and DIDs whose signals a state marks valid.
Good(vals, t) == {key \in CapableKeys : /\ fresh(poller, key, t)
                                        /\ key \in Pids => vals[key] # Never}

\* The lamps lit from the DIDs.
Mirrors(vals, t) == UNION {mirrored(did) : did \in Good(vals, t) \cap Dids}

\* The lamps of the vehicle's broadcasts that are not too old.
Lit(t) == IF lampsSeen >= 0 /\ t - lampsSeen <= LampWindow THEN lamps ELSE {}

\* A state that is handed over: its values are of advertised signals, its lamps those
\* of the broadcasts or mirrored.
LEMMA HandedState ==
    ASSUME NEW vals, NEW t
    PROVE  /\ vehicleState(vals, t).capable = SignalsOf(CapableKeys)
           /\ vehicleState(vals, t).valid = SignalsOf(Good(vals, t))
           /\ vehicleState(vals, t).valid \subseteq vehicleState(vals, t).capable
           /\ vehicleState(vals, t).lamps = Lit(t) \cup Mirrors(vals, t)
<1>1. vehicleState(vals, t)
         = [capable |-> SignalsOf(CapableKeys), valid |-> SignalsOf(Good(vals, t)),
            lamps |-> Lit(t) \cup Mirrors(vals, t)]
  BY DEF vehicleState, Good, Lit, Mirrors
<1>2. Good(vals, t) \subseteq CapableKeys
  BY DEF Good
<1>3. SignalsOf(Good(vals, t)) \subseteq SignalsOf(CapableKeys)
  BY <1>2, SignalsMonotone
<1> QED
  BY <1>1, <1>3

\* The head of the ISO-TP socket's queue is one of its replies.
LEMMA ReplyFacts ==
    ASSUME IsoInv, rx # <<>>
    PROVE  /\ Len(rx) \in Nat /\ Len(rx) >= 1 /\ Head(rx) = rx[1]
           /\ Head(rx).did \in Dids \cup {NoKey}
           /\ Head(rx).kind \in Records \cup {"good"}
           /\ Head(rx).sent \in Nat /\ Head(rx).sent <= now
<1>1. rx \in Seq(Replies)
  BY DEF IsoInv
<1>2. Len(rx) \in Nat /\ Len(rx) >= 1 /\ Head(rx) = rx[1] /\ Head(rx) \in Replies
      /\ 1 \in 1 .. Len(rx)
  BY <1>1
<1>3. Head(rx).sent <= now
  BY <1>2 DEF IsoInv
<1> QED
  BY <1>2, <1>3 DEF Replies

\* A step that changes neither values nor records nor what the host has.
LEMMA SameData ==
    ASSUME ClockInv, DataInv, UNCHANGED <<values, record, published>>,
           PidsOf(poller) \subseteq PidsOf(poller'), now' \in Nat, now <= now'
    PROVE  DataInv'
<1>1. values' = values /\ record' = record /\ published' = published
      /\ now \in Nat /\ now' \in Nat /\ now <= now'
  BY DEF ClockInv
<1>2. \A pid \in Pids : /\ values[pid] \in Int /\ values[pid] <= now
                        /\ values[pid] # Never => pid \in PidsOf(poller)
  BY DEF DataInv, Never
<1>3. \A did \in Dids : record[did].sent \in Int /\ record[did].sent <= now
  BY DEF DataInv, Never
<1>4. \A pid \in Pids : values[pid] <= now'
  BY <1>1, <1>2
<1>5. \A did \in Dids : record[did].sent <= now'
  BY <1>1, <1>3
<1> QED
  BY <1>1, <1>2, <1>4, <1>5 DEF DataInv

LEMMA DataStep ==
    /\ ThreadInv /\ ClockInv /\ ItemsInv /\ PolledInv /\ IsoInv /\ DataInv
    /\ [Next]_vars
    => DataInv'
<1> SUFFICES ASSUME ThreadInv, ClockInv, ItemsInv, PolledInv, IsoInv, DataInv, [Next]_vars
             PROVE  DataInv'
  OBVIOUS
<1>0. HeardWaits /\ now \in Nat /\ loopNow \in Nat /\ loopNow <= now
  BY DEF ThreadInv, ClockInv
<1>1. CASE Publish
  <2>1. UNCHANGED <<now, values, record, poller>>
    BY <1>1 DEF Publish
  <2>2. published' = published \/ published' = vehicleState(values, now)
    BY <1>1 DEF Publish
  <2>3. published'.valid \subseteq published'.capable
    BY <2>2, HandedState DEF DataInv
  <2> QED
    BY <2>1, <2>3 DEF DataInv
<1>2. CASE DiscoverFail
  <2>1. /\ UNCHANGED <<now, record, poller>> /\ values' = NoValues
        /\ published' = vehicleState(NoValues, loopNow)
    BY <1>2 DEF DiscoverFail
  <2>2. published'.valid \subseteq published'.capable
    BY <2>1, HandedState
  <2>3. \A pid \in Pids : NoValues[pid] = Never
    BY DEF NoValues
  <2>4. NoValues \in [Pids -> Nat \cup {Never}] /\ Never <= now
    BY <1>0 DEF NoValues, Never
  <2> QED
    BY <2>1, <2>2, <2>3, <2>4 DEF DataInv
<1>3. CASE DiscoverObd
  <2>1. UNCHANGED <<now, record, published>> /\ values' = NoValues
    BY <1>3, ObdFacts DEF ObdFound
  <2>2. \A pid \in Pids : NoValues[pid] = Never
    BY DEF NoValues
  <2>3. NoValues \in [Pids -> Nat \cup {Never}] /\ Never <= now
    BY <1>0 DEF NoValues, Never
  <2> QED
    BY <2>1, <2>2, <2>3 DEF DataInv
<1>4. CASE ProbePackAnswer
  <2>1. UNCHANGED <<now, values, record, published>>
    BY <1>4 DEF ProbePackAnswer
  <2>2. PidsOf(poller) \subseteq PidsOf(poller')
    BY <1>4, DiscoveryPolls DEF Started, PolledInv, ProbePackAnswer
  <2> QED
    BY <1>0, <2>1, <2>2, SameData
<1>5. CASE ProbePackFail
  BY <1>0, <1>5, SameData DEF ProbePackFail
<1>6. CASE ProbeAssist
  <2>1. UNCHANGED <<now, values, record, published>>
    BY <1>6 DEF ProbeAssist
  <2>2. /\ PidsOf(poller) = (supported \cap Pids) \cup (Dids \ {"ASSIST"})
        /\ supported' = supported
    BY <1>6 DEF Started, PolledInv, ProbeAssist, Discovered
  <2>3. PidsOf(poller') = (supported' \cap Pids)
                          \cup (IF assistPresent' THEN Dids ELSE Dids \ {"ASSIST"})
    BY <1>6, DiscoveryPolls DEF Started
  <2>4. PidsOf(poller) \subseteq PidsOf(poller')
    BY <2>2, <2>3
  <2> QED
    BY <1>0, <2>1, <2>4, SameData
<1>7. CASE PollRequest
  <2>1. UNCHANGED <<now, values, record, published>>
    BY <1>0, <1>7, RequestsFacts
  <2>2. PidsOf(poller') = PidsOf(poller)
    BY <1>0, <1>7, RequestedItems
  <2> QED
    BY <1>0, <2>1, <2>2, SameData
<1>8. CASE QueryAnswer
  <2>1. /\ UNCHANGED <<now, record, published>>
        /\ values' = [values EXCEPT ![current] = now]
        /\ current \in Pids /\ current \in PidsOf(poller)
    BY <1>8 DEF QueryAnswer, ItemsInv
  <2>2. PidsOf(poller') = PidsOf(poller)
    BY <1>8, EndedItems
  <2>3. values \in [Pids -> Nat \cup {Never}]
    BY DEF DataInv
  <2>4. /\ values' \in [Pids -> Nat \cup {Never}]
        /\ \A pid \in Pids : values'[pid] = IF pid = current THEN now ELSE values[pid]
    BY <1>0, <2>1, <2>3
  <2>5. \A pid \in Pids : /\ values'[pid] <= now
                          /\ values'[pid] # Never => pid \in PidsOf(poller')
    BY <1>0, <2>1, <2>2, <2>4 DEF DataInv
  <2> QED
    BY <2>1, <2>4, <2>5 DEF DataInv
<1>9. CASE QueryFail \/ PollDidFail
  <2>1. UNCHANGED <<now, values, record, published>>
    BY <1>9 DEF QueryFail, PollDidFail
  <2>2. PidsOf(poller') = PidsOf(poller)
    BY <1>9, EndedItems
  <2> QED
    BY <1>0, <2>1, <2>2, SameData
<1>10. CASE PollDidReply
  <2>1. /\ UNCHANGED <<now, values, published>> /\ rx # <<>> /\ pc = "pollDid"
        /\ \/ record' = record
           \/ record' = [record EXCEPT ![current] = [sent |-> Head(rx).sent,
                                                     kind |-> Head(rx).kind]]
    BY <1>10 DEF PollDidReply, Positive
  <2>2. PidsOf(poller') = PidsOf(poller)
    BY <1>10, EndedItems
  <2>3. CASE record' = record
    BY <1>0, <2>1, <2>2, <2>3, SameData
  <2>4. CASE record' = [record EXCEPT ![current] = [sent |-> Head(rx).sent,
                                                    kind |-> Head(rx).kind]]
    <3> DEFINE r == [sent |-> Head(rx).sent, kind |-> Head(rx).kind]
               R == [sent: Nat \cup {Never}, kind: Records \cup {"good"}]
    <3>1. r \in R /\ r.sent <= now
      BY <2>1, ReplyFacts
    <3>2. record \in [Dids -> R]
      BY DEF DataInv
    <3>3. record' = [record EXCEPT ![current] = r]
      BY <2>4
    <3> HIDE DEF r, R
    <3>4. /\ record' \in [Dids -> R]
          /\ \A did \in Dids : record'[did] = IF did = current THEN r ELSE record[did]
      BY <3>1, <3>2, <3>3
    <3>5. \A did \in Dids : record'[did].sent <= now
      BY <3>1, <3>4 DEF DataInv
    <3> QED
      BY <2>1, <2>2, <3>4, <3>5 DEF DataInv, R
  <2> QED
    BY <2>1, <2>3, <2>4
<1>11. CASE LoopTop
  BY <1>0, <1>11, SameData DEF LoopTop
<1>12. CASE LoopExit
  BY <1>0, <1>12, SameData DEF LoopExit
<1>13. CASE Wake
  BY <1>0, <1>13, SameData DEF Wake
<1>14. CASE PollIdle
  BY <1>0, <1>14, SameData DEF PollIdle
<1>15. CASE IdleEnd
  BY <1>0, <1>15, SameData DEF IdleEnd
<1>16. CASE onTelltales
  BY <1>0, <1>16, SameData, TelltalesFacts
<1>17. CASE Stop
  BY <1>0, <1>17, SameData DEF Stop
<1>18. CASE StopJoined
  BY <1>0, <1>18, SameData DEF StopJoined
<1>19. ASSUME NEW kind \in Records, BmsReplies(kind)
       PROVE  DataInv'
  BY <1>0, <1>19, SameData DEF BmsReplies
<1>20. ASSUME NEW lit \in SUBSET Lamps, Broadcast(lit)
       PROVE  DataInv'
  BY <1>0, <1>20, SameData DEF Broadcast
<1>21. ASSUME NEW ecus \in Movers, Moves(ecus)
       PROVE  DataInv'
  BY <1>0, <1>21, SameData DEF Moves
<1>22. CASE Advance
  BY <1>0, <1>22, SameData DEF Advance
<1>23. CASE UNCHANGED vars
  BY <1>0, <1>23, SameData
<1>24. CASE DiscoverNextBlock
  BY <1>0, <1>24, NextBlockFacts, SameData
<1> QED
  BY <1>1, <1>2, <1>3, <1>4, <1>5, <1>6, <1>7, <1>8, <1>9, <1>10, <1>11, <1>12, <1>13,
     <1>14, <1>15, <1>16, <1>17, <1>18, <1>19, <1>20, <1>21, <1>22, <1>23, <1>24, Steps
     DEF Probes, DiscoveryEnds
-----------------------------------------------------------------------------
(***************************************************************************)
(* The ISO-TP socket.                                                      *)
(***************************************************************************)

\* An empty socket, and requests as before or with one more.
LEMMA IsoEmptied ==
    ASSUME IsoInv, rx' = <<>>, UNCHANGED up,
           \/ owed' = owed
           \/ /\ "bms" \in up /\ Len(owed) < MaxQueue
              /\ \E did \in Dids : owed' = Append(owed, did)
    PROVE  IsoInv'
<1>1. owed \in Seq(Dids) /\ Len(owed) \in Nat /\ MaxQueue \in Nat
  BY Durations DEF IsoInv
<1>2. rx' \in Seq(Replies) /\ Len(rx') = 0
  OBVIOUS
<1>3. CASE owed' = owed
  BY <1>1, <1>2, <1>3 DEF IsoInv
<1>4. ASSUME "bms" \in up, Len(owed) < MaxQueue, NEW did \in Dids,
             owed' = Append(owed, did)
      PROVE  IsoInv'
  <2>1. owed' \in Seq(Dids) /\ Len(owed') = Len(owed) + 1
    BY <1>1, <1>4
  <2>2. Len(owed') <= MaxQueue
    BY <1>1, <1>4, <2>1
  <2> QED
    BY <1>1, <1>2, <1>4, <2>1, <2>2 DEF IsoInv
<1> QED
  BY <1>3, <1>4

\* Nothing happens to the ISO-TP socket.
LEMMA IsoSame ==
    ASSUME IsoInv, ClockInv, UNCHANGED isoVars, UNCHANGED <<up, now>>, pc' \in IsoCalls => pc' = pc
    PROVE  IsoInv'
BY DEF IsoInv

\* A reply is read, and the thread returns from its call.
LEMMA IsoRead ==
    ASSUME IsoInv, read, UNCHANGED <<up, now>>, pc' \notin IsoCalls
    PROVE  IsoInv'
<1>1. rx \in Seq(Replies) /\ Len(rx) \in Nat /\ MaxQueue \in Nat
  BY Durations DEF IsoInv
<1>2. CASE rx = <<>>
  <2>1. rx' = rx /\ owed' = owed
    BY <1>2 DEF read
  <2> QED
    BY <2>1 DEF IsoInv
<1>3. CASE rx # <<>>
  <2>1. rx' = Tail(rx) /\ owed' = owed
    BY <1>3 DEF read
  <2>2. rx' \in Seq(Replies) /\ Len(rx') = Len(rx) - 1
    BY <1>1, <1>3, <2>1
  <2>3. \A i \in 1 .. Len(rx') : rx'[i] = rx[i + 1] /\ i + 1 \in 1 .. Len(rx)
    <3>1. \A i \in 1 .. Len(rx') : rx'[i] = rx[i + 1]
      BY <1>1, <1>3, <2>1, HeadTailProperties
    <3>2. \A i \in 1 .. (Len(rx) - 1) : i + 1 \in 1 .. Len(rx)
      BY <1>1
    <3> QED
      BY <2>2, <3>1, <3>2
  <2>4. Len(rx') <= MaxQueue
    BY <1>1, <2>2 DEF IsoInv
  <2> QED
    BY <2>1, <2>2, <2>3, <2>4 DEF IsoInv
<1> QED
  BY <1>2, <1>3

\* What BmsReplies puts into the socket.
Answer(did, kind) == [did  |-> IF did \in Served THEN did ELSE NoKey,
                      kind |-> IF did \in Served THEN kind ELSE "good",
                      sent |-> now]

LEMMA ReplyArrives ==
    ASSUME IsoInv, ClockInv, NEW kind \in Records, BmsReplies(kind)
    PROVE  /\ Len(rx) \in Nat /\ Len(rx') = Len(rx) + 1 /\ rx' \in Seq(Replies)
           /\ \A i \in 1 .. Len(rx) : rx'[i] = rx[i]
           /\ rx'[Len(rx) + 1].sent = now
           /\ rx # <<>> => rx'[1] = rx[1]
           /\ rx = <<>> => rx'[1].sent = now
           /\ rx' # <<>>
<1> DEFINE r == Answer(Head(owed), kind)
<1>1. owed # <<>> /\ rx' = Append(rx, r)
  BY DEF BmsReplies, Answer
<1>2. owed \in Seq(Dids) /\ rx \in Seq(Replies) /\ now \in Nat
  BY DEF IsoInv, ClockInv
<1>3. Head(owed) \in Dids
  BY <1>1, <1>2
<1>4. r \in Replies /\ r.sent = now
  BY <1>2, <1>3 DEF Answer, Replies
<1> HIDE DEF r
<1>5. /\ Len(rx) \in Nat /\ Len(rx') = Len(rx) + 1 /\ rx' \in Seq(Replies)
      /\ \A i \in 1 .. Len(rx) : rx'[i] = rx[i]
      /\ rx'[Len(rx) + 1] = r
  BY <1>1, <1>2, <1>4
<1>6. rx # <<>> => 1 \in 1 .. Len(rx)
  BY <1>2
<1>7. rx = <<>> => Len(rx) = 0
  OBVIOUS
<1>8. rx' # <<>>
  BY <1>5
<1> QED
  BY <1>4, <1>5, <1>6, <1>7, <1>8

LEMMA IsoStep ==
    ThreadInv /\ ClockInv /\ IsoInv /\ [Next]_vars => IsoInv'
<1> SUFFICES ASSUME ThreadInv, ClockInv, IsoInv, [Next]_vars
             PROVE  IsoInv'
  OBVIOUS
<1>0. HeardWaits /\ now \in Nat /\ up \subseteq Ecus /\ (owed # <<>> => "bms" \in up)
  BY DEF ThreadInv, ClockInv, IsoInv
<1>1. CASE Probes
  BY <1>0, <1>1, ProbeFacts, IsoEmptied
<1>2. CASE DiscoverObd /\ ~bmsOpen
  BY <1>2, ObdFacts, IsoSame DEF ObdFound, Discovered, return, IsoCalls
<1>3. CASE ProbePackFail
  BY <1>3, IsoRead DEF ProbePackFail, Discovered, return, IsoCalls
<1>4. CASE ProbeAssist
  BY <1>4, IsoRead DEF ProbeAssist, Discovered, return, IsoCalls
<1>5. CASE PollRequest
  <2>1. UNCHANGED <<up, now>>
    BY <1>0, <1>5, RequestsFacts
  <2>2. CASE AsksEngine
    BY <2>1, <2>2, IsoSame DEF AsksEngine, IsoCalls
  <2>3. CASE AsksBms
    BY <2>1, <2>3, IsoEmptied DEF AsksBms
  <2> QED
    BY <1>0, <1>5, <2>2, <2>3, RequestsFacts
<1>6. CASE QueryAnswer
  BY <1>6, IsoSame DEF QueryAnswer, Answered, return, IsoCalls
<1>7. CASE QueryFail
  <2>1. UNCHANGED isoVars /\ UNCHANGED <<up, now>>
    BY <1>7 DEF QueryFail
  <2>2. pc' \in {"publish", "top"}
    BY <1>7, PollEnds
  <2> QED
    BY <2>1, <2>2, IsoSame DEF IsoCalls
<1>8. CASE PollDidReply \/ PollDidFail
  <2>1. read /\ UNCHANGED <<up, now>>
    BY <1>8 DEF PollDidReply, PollDidFail
  <2>2. pc' \in {"publish", "top"}
    BY <1>8, PollEnds
  <2> QED
    BY <2>1, <2>2, IsoRead DEF IsoCalls
<1>9. CASE LoopTop
  BY <1>9, IsoSame DEF LoopTop, IsoCalls
<1>10. CASE LoopExit
  BY <1>10, IsoSame DEF LoopExit, IsoCalls
<1>11. CASE Wake
  BY <1>11, IsoSame DEF Wake, return, IsoCalls
<1>12. CASE DiscoverFail
  BY <1>12, IsoSame DEF DiscoverFail, IsoCalls
<1>13. CASE PollIdle
  BY <1>13, IsoSame DEF PollIdle, IsoCalls
<1>14. CASE IdleEnd
  BY <1>14, IsoSame DEF IdleEnd, return, IsoCalls
<1>15. CASE Publish
  BY <1>15, IsoSame DEF Publish, IsoCalls
<1>16. CASE onTelltales
  <2>1. UNCHANGED isoVars /\ UNCHANGED <<up, now>> /\ (pc' = "publish" \/ pc' = pc)
    BY <1>0, <1>16, TelltalesFacts
  <2> QED
    BY <2>1, IsoSame DEF IsoCalls
<1>17. CASE Stop
  BY <1>17, IsoSame DEF Stop
<1>18. CASE StopJoined
  BY <1>18, IsoEmptied DEF StopJoined
<1>19. ASSUME NEW kind \in Records, BmsReplies(kind)
       PROVE  IsoInv'
  <2>1. UNCHANGED <<now, up, pc>> /\ owed # <<>> /\ owed' = Tail(owed) /\ Len(rx) < MaxQueue
    BY <1>19 DEF BmsReplies
  <2>2. owed' \in Seq(Dids) /\ Len(owed') = Len(owed) - 1 /\ Len(owed) \in Nat
    BY <2>1 DEF IsoInv
  <2>3. Len(owed') <= MaxQueue /\ Len(rx') <= MaxQueue
    <3>1. Len(rx) \in Nat /\ Len(rx') = Len(rx) + 1
      BY <1>19, ReplyArrives
    <3>2. Len(owed) <= MaxQueue /\ MaxQueue \in Nat
      BY Durations DEF IsoInv
    <3>3. Len(owed') <= MaxQueue
      BY <2>2, <3>2
    <3>4. Len(rx) < MaxQueue
      BY <2>1
    <3>5. Len(rx') <= MaxQueue
      BY <3>1, <3>2, <3>4
    <3> QED
      BY <3>3, <3>5
  <2>4. ASSUME NEW i \in 1 .. Len(rx')
        PROVE  rx'[i].sent <= now
    <3>1. i \in 1 .. Len(rx) \/ i = Len(rx) + 1
      BY <1>19, ReplyArrives
    <3>2. CASE i \in 1 .. Len(rx)
      BY <1>19, <3>2, ReplyArrives DEF IsoInv
    <3>3. CASE i = Len(rx) + 1
      BY <1>0, <1>19, <3>3, ReplyArrives
    <3> QED
      BY <3>1, <3>2, <3>3
  <2>5. ASSUME pc \in IsoCalls
        PROVE  now <= rx'[1].sent + MaxLag
    <3>1. CASE rx = <<>>
      <4>1. rx'[1].sent = now
        BY <1>19, <3>1, ReplyArrives
      <4> QED
        BY <1>0, <4>1, Durations
    <3>2. CASE rx # <<>>
      BY <1>19, <2>5, <3>2, ReplyArrives DEF IsoInv
    <3> QED
      BY <3>1, <3>2
  <2> QED
    BY <1>0, <1>19, <2>1, <2>2, <2>3, <2>4, <2>5, ReplyArrives DEF IsoInv
<1>20. ASSUME NEW lit \in SUBSET Lamps, Broadcast(lit)
       PROVE  IsoInv'
  BY <1>20, IsoSame DEF Broadcast
<1>21. ASSUME NEW ecus \in Movers, Moves(ecus)
       PROVE  IsoInv'
  <2>1. /\ UNCHANGED <<now, pc, rx>> /\ (owed' = owed \/ owed' = <<>>)
        /\ (owed' # <<>> => "bms" \in up')
    BY <1>0, <1>21, MovesFacts
  <2>2. <<>> \in Seq(Dids) /\ Len(<<>>) = 0
    OBVIOUS
  <2>3. owed' \in Seq(Dids) /\ Len(owed') <= MaxQueue
    <3>1. owed \in Seq(Dids) /\ Len(owed) <= MaxQueue /\ MaxQueue \in Nat
      BY Durations DEF IsoInv
    <3>2. CASE owed' = owed
      BY <3>1, <3>2
    <3>3. CASE owed' = <<>>
      <4>1. owed' \in Seq(Dids) /\ Len(owed') = 0
        BY <3>3
      <4> QED
        BY <3>1, <4>1
    <3> QED
      BY <2>1, <3>2, <3>3
  <2> QED
    BY <2>1, <2>3 DEF IsoInv
<1>22. CASE Advance
  <2>1. /\ UNCHANGED <<pc, owed, rx, up>> /\ now' = now + 1
        /\ pc \in IsoCalls /\ rx # <<>> => now < Head(rx).sent + MaxLag
    BY <1>22 DEF Advance, IsoCalls
  <2>2. pc \in IsoCalls /\ rx # <<>> => now + 1 <= rx[1].sent + MaxLag
    BY <1>0, <2>1, ReplyFacts, Durations
  <2>3. \A i \in 1 .. Len(rx) : rx[i].sent \in Nat /\ rx[i].sent <= now
    <3>1. rx \in Seq(Replies) /\ \A i \in 1 .. Len(rx) : rx[i].sent <= now
      BY DEF IsoInv
    <3>2. \A i \in 1 .. Len(rx) : rx[i] \in Replies
      BY <3>1
    <3> QED
      BY <3>1, <3>2 DEF Replies
  <2>4. \A i \in 1 .. Len(rx) : rx[i].sent <= now'
    BY <1>0, <2>1, <2>3
  <2> QED
    BY <2>1, <2>2, <2>4 DEF IsoInv
<1>23. CASE UNCHANGED vars
  BY <1>23, IsoSame
<1>24. CASE DiscoverNextBlock
  BY <1>24, NextBlockFacts, IsoSame DEF IsoCalls
<1> QED
  BY <1>1, <1>2, <1>3, <1>4, <1>5, <1>6, <1>7, <1>8, <1>9, <1>10, <1>11, <1>12, <1>13,
     <1>14, <1>15, <1>16, <1>17, <1>18, <1>19, <1>20, <1>21, <1>22, <1>23, <1>24, Steps
     DEF DiscoveryEnds
-----------------------------------------------------------------------------
(***************************************************************************)
(* The lamps.                                                              *)
(***************************************************************************)
LEMMA LampsStep ==
    ThreadInv /\ ClockInv /\ LampsInv /\ [Next]_vars => LampsInv'
<1> SUFFICES ASSUME ThreadInv, ClockInv, LampsInv, [Next]_vars
             PROVE  LampsInv'
  OBVIOUS
<1>0. inbox \in Seq(Broadcasts) /\ now \in Nat /\ HeardWaits
  BY DEF LampsInv, ClockInv, ThreadInv
<1>1. /\ inbox \in Seq(Broadcasts) /\ Len(inbox) \in Nat /\ now \in Nat
      /\ \A i \in 1 .. Len(inbox) : inbox[i] \in Broadcasts
  BY <1>0
<1>2. \A i \in 1 .. Len(inbox) : inbox[i].at \in Nat
  BY <1>1 DEF Broadcasts
<1>3. ASSUME UNCHANGED lampVars, now' \in Nat, now <= now'
      PROVE  LampsInv'
  <2>1. /\ \A i \in 1 .. Len(inbox') : inbox'[i].at <= now'
        /\ \A i, j \in 1 .. Len(inbox') : i <= j => inbox'[i].at <= inbox'[j].at
    BY <1>1, <1>2, <1>3 DEF LampsInv
  <2>2. lampsSeen' \in Nat \cup {Never} /\ lampsSeen' <= now'
    BY <1>1, <1>3 DEF LampsInv, Never
  <2> QED
    BY <1>3, <2>1, <2>2 DEF LampsInv
<1>4. CASE onTelltales
  <2>1. /\ inbox # <<>> /\ inbox' = Tail(inbox) /\ lamps' = Head(inbox).lit
        /\ lampsSeen' = now /\ lampsAt' = Head(inbox).at /\ UNCHANGED now
    BY <1>0, <1>4, TelltalesFacts
  <2>2. /\ inbox' \in Seq(Broadcasts) /\ Len(inbox') = Len(inbox) - 1
        /\ Head(inbox) \in Broadcasts /\ Head(inbox) = inbox[1] /\ Len(inbox) >= 1
    BY <1>1, <2>1
  <2>3. \A i \in 1 .. Len(inbox') : inbox'[i] = inbox[i + 1] /\ i + 1 \in 1 .. Len(inbox)
    <3>1. \A i \in 1 .. Len(inbox') : inbox'[i] = inbox[i + 1]
      BY <1>1, <2>1, HeadTailProperties
    <3>2. \A i \in 1 .. (Len(inbox) - 1) : i + 1 \in 1 .. Len(inbox)
      BY <1>1
    <3> QED
      BY <2>2, <3>1, <3>2
  <2>4. lamps' \subseteq Lamps /\ lampsAt' \in Nat /\ lampsAt' <= now
    <3>1. /\ Head(inbox).lit \subseteq Lamps /\ Head(inbox).at \in Nat
          /\ 1 \in 1 .. Len(inbox)
      BY <1>1, <2>2 DEF Broadcasts
    <3> QED
      BY <2>1, <2>2, <3>1 DEF LampsInv
  <2>5. \A i, j \in 1 .. Len(inbox') : i <= j => i + 1 <= j + 1
    BY <2>2
  <2>6. /\ \A i \in 1 .. Len(inbox') : inbox'[i].at <= now'
        /\ \A i, j \in 1 .. Len(inbox') : i <= j => inbox'[i].at <= inbox'[j].at
    BY <2>1, <2>3, <2>5 DEF LampsInv
  <2>7. Len(inbox') <= MaxQueue
    BY <1>1, <2>2, Durations DEF LampsInv
  <2> QED
    <3>1. /\ lampsSeen' \in Nat \cup {Never} /\ lampsSeen' <= now'
          /\ lampsAt' \in Nat \cup {Never} /\ lampsAt' <= lampsSeen'
      BY <1>1, <2>1, <2>4
    <3> QED
      BY <2>2, <2>4, <2>6, <2>7, <3>1 DEF LampsInv
<1>5. ASSUME NEW lit \in SUBSET Lamps, Broadcast(lit)
      PROVE  LampsInv'
  <2> DEFINE b == [lit |-> lit, at |-> now]
  <2>1. /\ inbox' = Append(inbox, b) /\ Len(inbox) < MaxQueue
        /\ UNCHANGED <<now, lamps, lampsSeen, lampsAt>>
    BY <1>5 DEF Broadcast
  <2>2. b \in Broadcasts /\ b.at = now
    BY <1>1 DEF Broadcasts
  <2> HIDE DEF b
  <2>3. /\ inbox' \in Seq(Broadcasts) /\ Len(inbox') = Len(inbox) + 1
        /\ \A i \in 1 .. Len(inbox) : inbox'[i] = inbox[i]
        /\ inbox'[Len(inbox) + 1] = b
    BY <1>1, <2>1, <2>2
  <2>4. \A i \in 1 .. (Len(inbox) + 1) :
           i \in 1 .. Len(inbox) \/ (i = Len(inbox) + 1 /\ \A j \in 1 .. Len(inbox) : ~ (i <= j))
    BY <1>1
  <2>5. \A i \in 1 .. Len(inbox') : inbox'[i].at <= now'
    BY <1>1, <2>1, <2>2, <2>3, <2>4 DEF LampsInv
  <2>6. ASSUME NEW i \in 1 .. Len(inbox'), NEW j \in 1 .. Len(inbox'), i <= j
        PROVE  inbox'[i].at <= inbox'[j].at
    <3>1. CASE j \in 1 .. Len(inbox)
      BY <2>3, <2>4, <2>6, <3>1 DEF LampsInv
    <3>2. CASE j = Len(inbox) + 1
      BY <2>1, <2>2, <2>3, <2>5, <3>2
    <3> QED
      BY <2>3, <2>4, <3>1, <3>2
  <2>7. Len(inbox') <= MaxQueue
    BY <1>1, <2>1, <2>3, Durations
  <2> QED
    BY <2>1, <2>3, <2>5, <2>6, <2>7 DEF LampsInv
<1>6. CASE StopJoined
  <2>1. inbox' = <<>> /\ UNCHANGED <<now, lamps, lampsSeen, lampsAt>>
    BY <1>6 DEF StopJoined
  <2>2. inbox' \in Seq(Broadcasts) /\ Len(inbox') = 0
    BY <2>1
  <2> QED
    BY <2>1, <2>2, Durations DEF LampsInv
<1>7. CASE Probes
  BY <1>0, <1>1, <1>3, <1>7, ProbeFacts
<1>8. CASE DiscoveryEnds
  BY <1>1, <1>3, <1>8, DiscoveryFacts
<1>9. CASE PollRequest
  BY <1>0, <1>1, <1>3, <1>9, RequestsFacts
<1>10. CASE QueryAnswer \/ QueryFail \/ PollDidReply \/ PollDidFail
  <2>1. UNCHANGED lampVars /\ now' = now
    BY <1>10, PollEnds
  <2> QED
    BY <1>1, <1>3, <2>1
<1>11. CASE LoopTop \/ LoopExit \/ Wake \/ DiscoverFail
  BY <1>1, <1>3, <1>11 DEF LoopTop, LoopExit, Wake, DiscoverFail
<1>12. CASE PollIdle \/ IdleEnd \/ Publish \/ Stop
  BY <1>1, <1>3, <1>12 DEF PollIdle, IdleEnd, Publish, Stop
<1>13. ASSUME NEW kind \in Records, BmsReplies(kind)
       PROVE  LampsInv'
  BY <1>1, <1>3, <1>13 DEF BmsReplies
<1>14. ASSUME NEW ecus \in Movers, Moves(ecus)
       PROVE  LampsInv'
  BY <1>1, <1>3, <1>14 DEF Moves
<1>15. CASE Advance
  BY <1>1, <1>3, <1>15 DEF Advance
<1>16. CASE UNCHANGED vars
  BY <1>1, <1>3, <1>16
<1>17. CASE DiscoverNextBlock
  BY <1>1, <1>3, <1>17, NextBlockFacts
<1> QED
  BY <1>4, <1>5, <1>6, <1>7, <1>8, <1>9, <1>10, <1>11, <1>12, <1>13, <1>14, <1>15, <1>16,
     <1>17, Steps
-----------------------------------------------------------------------------
LEMMA StateInit == Init => StateInv
<1> SUFFICES ASSUME Init
             PROVE  StateInv
  OBVIOUS
<1> USE DEF Init
<1>1. ThreadInv
  BY DEF ThreadInv, HeardWaits
<1>2. ClockInv
  BY Durations DEF ClockInv
<1>3. CallInv
  BY Durations DEF CallInv, Blocking, RawCalls, IsoCalls
<1>4. ItemsInv
  <2>1. Started(poller, {}) /\ Len(poller.items) = 0
    BY ClearStarts DEF clear
  <2> QED
    BY <2>1 DEF ItemsInv, Started
<1>5. PolledInv
  <2>1. Started(poller, {})
    BY ClearStarts
  <2>2. CapableKeys = {}
    BY DEF CapableKeys
  <2>3. PidsOf(poller) = {}
    BY <2>1 DEF Started
  <2> QED
    BY <2>2, <2>3 DEF PolledInv
<1>6. DataInv
  <2>1. \A pid \in Pids : values[pid] = Never
    BY DEF NoValues
  <2>2. values \in [Pids -> Nat \cup {Never}]
    BY DEF NoValues
  <2>3. NoRecord \in [sent: Nat \cup {Never}, kind: Records \cup {"good"}]
        /\ NoRecord.sent = Never
    BY DEF NoRecord
  <2>4. /\ record \in [Dids -> [sent: Nat \cup {Never}, kind: Records \cup {"good"}]]
        /\ \A did \in Dids : record[did].sent = Never
    BY <2>3
  <2>5. now \in Nat /\ Never <= now /\ published.valid \subseteq published.capable
    BY DEF Never
  <2> QED
    BY <2>1, <2>2, <2>4, <2>5 DEF DataInv
<1>7. IsoInv
  <2>1. owed \in Seq(Dids) /\ Len(owed) = 0 /\ rx \in Seq(Replies) /\ Len(rx) = 0
    OBVIOUS
  <2> QED
    BY <2>1, Durations DEF IsoInv
<1>8. LampsInv
  <2>1. inbox \in Seq(Broadcasts) /\ Len(inbox) = 0
    OBVIOUS
  <2> QED
    BY <2>1, Durations DEF LampsInv, Never
<1>9. ChainInv
  BY EcuFacts DEF ChainInv
<1> QED
  BY <1>1, <1>2, <1>3, <1>4, <1>5, <1>6, <1>7, <1>8, <1>9 DEF StateInv

LEMMA StateStep == StateInv /\ [Next]_vars => StateInv'
BY ThreadStep, ClockStep, CallStep, ChainStep, ItemsStep, PolledStep, DataStep, IsoStep,
   LampsStep DEF StateInv

THEOREM StateInvariance == Spec => []StateInv
BY StateInit, StateStep, PTL DEF Spec

\* What is polled is what is advertised, whatever was discovered before.
THEOREM PolledAdvertised == Spec => []PolledIsAdvertised
<1>1. StateInv => PolledIsAdvertised
  BY DEF StateInv, PolledInv, PolledIsAdvertised
<1> QED
  BY <1>1, StateInvariance, PTL

\* Every variable has its type.
THEOREM TypeCorrect == Spec => []TypeOK
<1> SUFFICES ASSUME StateInv
             PROVE  TypeOK
  BY StateInvariance, PTL
<1> USE DEF StateInv
<1>1. now \in 0 .. MaxTime /\ {loopNow, wakeBy, nextPublish, since} \subseteq Times
  <2>1. /\ loopNow \in Times /\ nextPublish \in Times /\ since \in Times
        /\ now \in 0 .. MaxTime
    BY Durations DEF ClockInv, Times
  <2>2. wakeBy \in Times
    <3>1. pc \in Blocking => pc \in {"discover", "probePack", "probeAssist"} \/ pc = "sleep"
                            \/ pc \in {"query", "pollDid"} \/ pc = "idle"
      BY DEF Blocking, RawCalls, IsoCalls
    <3>2. pc \notin Blocking => wakeBy = 0
      BY DEF CallInv
    <3>3. now \in Nat /\ now <= MaxTime /\ wakeBy \in Nat
      BY DEF ClockInv, CallInv
    <3>4. wakeBy <= now + (Fast + DiscoverTimeout + RetrySleep + IdleMax + PublishPeriod)
      BY <3>1, <3>2, <3>3, Durations DEF CallInv
    <3> QED
      BY <3>3, <3>4, Durations DEF Times
  <2> QED
    BY <2>1, <2>2
<1>2. /\ pc \in {"top", "discover", "probePack", "probeAssist", "sleep", "poll", "query",
                 "pollDid", "idle", "publish", "done", "stopped"}
      /\ link \in {"unknown", "up", "down"} /\ up \subseteq Ecus /\ moves \in 0 .. MaxMoves
  BY DEF ThreadInv, ClockInv
<1>3. {running, bmsOpen, discovered, bmsPresent, assistPresent, heard} \subseteq BOOLEAN
  BY DEF ThreadInv, HeardWaits
<1>4. current \in Pids \cup Dids \cup {NoKey}
  BY DEF ItemsInv, Keys
<1>5. supported \subseteq Advertised
  BY DEF PolledInv
<1>6. PidsOf(poller) \subseteq (Pids \cap Advertised) \cup Dids
  <2>1. CASE pc \notin {"probePack", "probeAssist"}
    BY <1>5, <2>1 DEF PolledInv, CapableKeys, Dids
  <2>2. CASE pc \in {"probePack", "probeAssist"}
    BY <1>5, <2>2 DEF PolledInv, Started, Dids
  <2> QED
    BY <2>1, <2>2
<1>7. \A t \in Nat \cup {Never} : t <= now => t \in Times \cup {Never}
  BY Durations DEF ClockInv, Times, Never
<1>8. values \in [Pids -> Times \cup {Never}]
  <2>1. values \in [Pids -> Nat \cup {Never}] /\ \A pid \in Pids : values[pid] <= now
    BY DEF DataInv
  <2> QED
    BY <1>7, <2>1
<1>9. record \in [Dids -> [sent: Times \cup {Never}, kind: Records \cup {"good"}]]
  <2>1. /\ record \in [Dids -> [sent: Nat \cup {Never}, kind: Records \cup {"good"}]]
        /\ \A did \in Dids : record[did].sent <= now
    BY DEF DataInv
  <2>2. \A did \in Dids : record[did] \in [sent: Times \cup {Never},
                                           kind: Records \cup {"good"}]
    BY <1>7, <2>1
  <2> QED
    BY <2>1, <2>2
<1>10. {lampsSeen, lampsAt} \subseteq Times \cup {Never} /\ lamps \subseteq Lamps
  <2>1. /\ lampsSeen \in Nat \cup {Never} /\ lampsSeen <= now
        /\ lampsAt \in Nat \cup {Never} /\ lampsAt <= lampsSeen
    BY DEF LampsInv
  <2>2. lampsAt <= now
    BY <2>1 DEF ClockInv, Never
  <2> QED
    BY <1>7, <2>1, <2>2 DEF LampsInv
<1>11. published.valid \subseteq published.capable
  BY DEF DataInv
<1>12. /\ Range(owed) \subseteq Dids /\ Len(owed) <= MaxQueue /\ Len(rx) <= MaxQueue
       /\ Range(rx) \subseteq Reply
  <2>1. owed \in Seq(Dids) /\ rx \in Seq(Replies)
        /\ Len(owed) <= MaxQueue /\ Len(rx) <= MaxQueue
    BY DEF IsoInv
  <2>2. \A i \in 1 .. Len(owed) : owed[i] \in Dids
    BY <2>1
  <2>3. Range(owed) \subseteq Dids
    BY <2>1, <2>2 DEF Range
  <2>4. \A i \in 1 .. Len(rx) : rx[i] \in Replies /\ rx[i].sent <= now
    BY <2>1 DEF IsoInv
  <2>5. \A i \in 1 .. Len(rx) : rx[i].sent \in Times
    BY <2>4, Durations DEF Replies, Times, ClockInv
  <2>6. \A i \in 1 .. Len(rx) : rx[i] \in Reply
    BY <2>4, <2>5 DEF Replies, Reply
  <2>7. Range(rx) \subseteq Reply
    BY <2>1, <2>6 DEF Range
  <2> QED
    BY <2>1, <2>3, <2>7
<1>13. block \in 0 .. Len(Blocks) /\ found \subseteq Advertised
  BY DEF ChainInv
<1> QED
  BY <1>1, <1>2, <1>3, <1>4, <1>5, <1>6, <1>8, <1>9, <1>10, <1>11, <1>12, <1>13 DEF TypeOK
-----------------------------------------------------------------------------
(***************************************************************************)
(* The age of a record that is handed over.                                *)
(***************************************************************************)

\* A state is handed over by publish(), and by a discovery that fails.
LEMMA HandsOverFacts ==
    ASSUME ThreadInv, [Next]_vars, HandsOver
    PROVE  \/ Publish /\ pc = "publish" /\ published' = vehicleState(values, now)
           \/ DiscoverFail /\ pc = "discover" /\ published' = vehicleState(NoValues, loopNow)
<1>0. HeardWaits
  BY DEF ThreadInv
<1> USE DEF HandsOver
<1>1. CASE Publish
  BY <1>1 DEF Publish
<1>2. CASE DiscoverFail
  BY <1>2 DEF DiscoverFail
<1>3. CASE Probes
  BY <1>0, <1>3, ProbeFacts
<1>4. CASE DiscoveryEnds
  BY <1>4, DiscoveryFacts
<1>5. CASE PollRequest
  BY <1>0, <1>5, RequestsFacts
<1>6. CASE QueryAnswer \/ QueryFail \/ PollDidReply \/ PollDidFail
  <2>1. UNCHANGED nextPublish /\ pc \in {"query", "pollDid"}
    BY <1>6, PollEnds
  <2> QED
    BY <2>1
<1>7. CASE LoopTop \/ LoopExit
  BY <1>7 DEF LoopTop, LoopExit
<1>8. CASE Wake \/ PollIdle \/ IdleEnd
  BY <1>8 DEF Wake, PollIdle, IdleEnd
<1>9. CASE onTelltales
  <2>1. UNCHANGED nextPublish /\ (pc' = "publish" \/ pc' = pc)
    BY <1>0, <1>9, TelltalesFacts
  <2> QED
    BY <2>1
<1>10. CASE Stop \/ StopJoined \/ Advance
  BY <1>10 DEF Stop, StopJoined, Advance
<1>11. ASSUME NEW kind \in Records, BmsReplies(kind)
       PROVE  FALSE
  BY <1>11 DEF BmsReplies
<1>12. ASSUME NEW lit \in SUBSET Lamps, Broadcast(lit)
       PROVE  FALSE
  BY <1>12 DEF Broadcast
<1>13. ASSUME NEW ecus \in Movers, Moves(ecus)
       PROVE  FALSE
  BY <1>13 DEF Moves
<1>14. CASE UNCHANGED vars
  BY <1>14
<1>15. CASE DiscoverNextBlock
  BY <1>15, NextBlockFacts
<1> QED
  BY <1>1, <1>2, <1>3, <1>4, <1>5, <1>6, <1>7, <1>8, <1>9, <1>10, <1>11, <1>12, <1>13,
     <1>14, <1>15, Steps

\* A signal has one source: the engine speed is a PID's in the hybrid and a DID's in
\* the electric car.
LEMMA OneSource ==
    ASSUME NEW did \in Dids, NEW key \in Keys, signalsOf(did) \cap signalsOf(key) # {}
    PROVE  key = did
<1>1. /\ signalsOf("PACK") = {"PACK_VOLTAGE", "PACK_CURRENT", "SOC", "SOH", "CHARGING_STATE"}
      /\ signalsOf("RANGE") = {"RANGE", "CONSUMPTION"}
      /\ signalsOf("DRIVE") = {"GEAR", "POWER_STATE", "MOTOR_POWER"}
                              \cup (IF Hybrid THEN {} ELSE {"RPM"})
      /\ signalsOf("ASSIST") = {"ECO_SCORE", "SPEED_LIMIT", "COLLISION_RISK", "LANE_STATE",
                                "LEAD_GAP"}
      /\ signalsOf("MODULE_VOLTAGE") = {"AUX_BATTERY"}
  BY DEF signalsOf
<1>2. \A pid \in Pids : pid # "MODULE_VOLTAGE" => signalsOf(pid) = {pid}
  BY DEF signalsOf, Pids
<1>3. CASE key \in Pids
  <2>1. PICK signal : signal \in signalsOf(did) /\ signal \in signalsOf(key)
    OBVIOUS
  <2>2. signal = "AUX_BATTERY" \/ signal \in Pids
    BY <1>1, <1>2, <1>3, <2>1
  <2>3. signal # "AUX_BATTERY" /\ (signal \in {"GEAR", "RANGE"} \/ signal \notin Pids)
    BY <1>1, <2>1, EcuFacts DEF Dids, Pids
  <2>4. signal \notin Pids
    BY <2>3 DEF Pids
  <2> QED
    BY <2>2, <2>3, <2>4
<1>4. CASE key \in Dids
  BY <1>1, <1>4 DEF Dids
<1> QED
  BY <1>3, <1>4 DEF Keys

\* A DID's last answer came with a record that was sent just before.
RecordsInv ==
    \A i \in 1 .. Len(poller.items) :
        poller.items[i].pid \in Dids /\ poller.items[i].lastAnswer # Never
           => /\ record[poller.items[i].pid].sent # Never
              /\ poller.items[i].lastAnswer <= record[poller.items[i].pid].sent + MaxLag

\* A DID that is handed over as valid was sent within three intervals and a lag.
LEMMA ValidIsRecent ==
    ASSUME StateInv, RecordsInv, NEW vals, NEW t \in Nat, NEW did \in Dids,
           signalsOf(did) \cap vehicleState(vals, t).valid # {}
    PROVE  record[did].sent # Never /\ t - record[did].sent <= 3 * interval(did) + MaxLag
<1>1. PICK signal : /\ signal \in signalsOf(did)
                    /\ signal \in SignalsOf(Good(vals, t))
  BY HandedState
<1>2. PICK key \in Good(vals, t) : signal \in signalsOf(key)
  BY <1>1 DEF SignalsOf
<1>3. key \in CapableKeys /\ fresh(poller, key, t)
  BY <1>2 DEF Good
<1>4. key \in Keys
  BY <1>3 DEF CapableKeys, Keys, Dids
<1>5. key = did
  BY <1>1, <1>2, <1>4, OneSource
<1> DEFINE i == find(poller, did)
<1>6. PollerOk(poller, Keys) /\ did \in PidsOf(poller)
  BY <1>3, <1>5 DEF StateInv, ItemsInv, fresh
<1>7. /\ i \in 1 .. Len(poller.items) /\ poller.items[i].pid = did
      /\ poller.items[i].lastAnswer >= 0
      /\ t - poller.items[i].lastAnswer <= 3 * poller.items[i].interval
  BY <1>3, <1>5, <1>6, FindFacts DEF fresh
<1> HIDE DEF i
<1>8. /\ poller.items[i].lastAnswer \in Nat \cup {-1} /\ poller.items[i].interval = interval(did)
      /\ interval(did) \in Nat
  BY <1>6, <1>7, ItemFacts DEF StateInv, ItemsInv
<1>9. /\ record[did].sent # Never
      /\ poller.items[i].lastAnswer <= record[did].sent + MaxLag
  BY <1>7, <1>8 DEF RecordsInv, Never
<1>10. record[did].sent \in Int
  BY DEF StateInv, DataInv, Never
<1> DEFINE last == poller.items[i].lastAnswer
           three == 3 * interval(did)
<1>11. last \in Int /\ three \in Int /\ t - last <= three /\ last <= record[did].sent + MaxLag
  BY <1>7, <1>8, <1>9
<1> HIDE DEF last, three
<1>12. t - record[did].sent <= three + MaxLag
  BY <1>10, <1>11, Durations
<1> QED
  BY <1>9, <1>12 DEF three

\* A step that leaves the records and the last answers of the DIDs.
LEMMA SameRecords ==
    ASSUME RecordsInv, UNCHANGED <<record, poller>>
    PROVE  RecordsInv'
BY DEF RecordsInv

LEMMA RecordsStep == StateInv /\ RecordsInv /\ [Next]_vars => RecordsInv'
<1> SUFFICES ASSUME StateInv, RecordsInv, [Next]_vars
             PROVE  RecordsInv'
  OBVIOUS
<1>0. HeardWaits /\ ThreadInv /\ ClockInv /\ ItemsInv /\ PolledInv /\ IsoInv /\ DataInv
  BY DEF StateInv, ThreadInv
<1>1. CASE Probes \/ DiscoveryEnds
  <2>1. PICK keys : Started(poller', keys)
    BY <1>0, <1>1, DiscoveryStarts
  <2> QED
    BY <2>1 DEF RecordsInv, Started
<1>2. CASE PollRequest
  <2>1. /\ Len(poller'.items) = Len(poller.items)
        /\ \A i \in 1 .. Len(poller.items) :
              /\ poller'.items[i].pid = poller.items[i].pid
              /\ poller'.items[i].lastAnswer = poller.items[i].lastAnswer
    BY <1>0, <1>2, RequestedItems
  <2>2. record' = record
    BY <1>0, <1>2, RequestsFacts
  <2> QED
    BY <2>1, <2>2 DEF RecordsInv
<1>3. CASE QueryAnswer \/ QueryFail \/ PollDidFail
  <2>1. /\ Len(poller'.items) = Len(poller.items)
        /\ \A i \in 1 .. Len(poller.items) :
              /\ poller'.items[i].pid = poller.items[i].pid
              /\ \/ poller'.items[i].lastAnswer = now /\ poller.items[i].pid = current
                 \/ poller'.items[i].lastAnswer = poller.items[i].lastAnswer
    BY <1>0, <1>3, EndedItems
  <2>2. record' = record
    BY <1>3 DEF QueryAnswer, QueryFail, PollDidFail
  <2>3. current \in Pids \/ poller' = poller
    BY <1>0, <1>3 DEF QueryAnswer, QueryFail, PollDidFail, Unanswered, ItemsInv
  <2>4. CASE current \in Pids
    BY <2>1, <2>2, <2>4, KeyFacts DEF RecordsInv
  <2>5. CASE poller' = poller
    BY <2>2, <2>5, SameRecords
  <2> QED
    BY <2>3, <2>4, <2>5
<1>4. CASE PollDidReply
  <2> DEFINE r == [sent |-> Head(rx).sent, kind |-> Head(rx).kind]
  <2>1. /\ Len(poller'.items) = Len(poller.items)
        /\ \A i \in 1 .. Len(poller.items) :
              /\ poller'.items[i].pid = poller.items[i].pid
              /\ \/ poller'.items[i].lastAnswer = now /\ poller.items[i].pid = current
                 \/ poller'.items[i].lastAnswer = poller.items[i].lastAnswer
    BY <1>0, <1>4, EndedItems
  <2>2. /\ pc = "pollDid" /\ rx # <<>> /\ current \in Dids
        /\ \/ record' = record /\ Head(rx).kind = "short"
           \/ record' = [record EXCEPT ![current] = r]
        /\ Head(rx).kind # "good" => poller' = poller
    BY <1>0, <1>4 DEF PollDidReply, Positive, Unanswered, ItemsInv
  <2>3. CASE record' = record /\ Head(rx).kind = "short"
    BY <2>2, <2>3, SameRecords
  <2>4. CASE record' = [record EXCEPT ![current] = r]
    <3>1. /\ r.sent \in Nat /\ r.sent # Never /\ now <= r.sent + MaxLag /\ now \in Nat
      BY <1>0, <2>2, ReplyFacts DEF IsoInv, IsoCalls, ClockInv, Never
    <3>2. record \in [Dids -> [sent: Nat \cup {Never}, kind: Records \cup {"good"}]]
      BY <1>0 DEF DataInv
    <3> HIDE DEF r
    <3>3. \A did \in Dids : record'[did] = IF did = current THEN r ELSE record[did]
      BY <2>2, <2>4, <3>2
    <3>4. SUFFICES ASSUME NEW i \in 1 .. Len(poller'.items),
                          poller'.items[i].pid \in Dids, poller'.items[i].lastAnswer # Never
                   PROVE  /\ record'[poller'.items[i].pid].sent # Never
                          /\ poller'.items[i].lastAnswer
                                <= record'[poller'.items[i].pid].sent + MaxLag
      BY DEF RecordsInv
    <3>5. i \in 1 .. Len(poller.items) /\ poller'.items[i].pid = poller.items[i].pid
      BY <2>1, <3>4
    <3>6. CASE poller.items[i].pid = current
      <4>1. poller.items[i].lastAnswer \in Nat \cup {-1} /\ poller.items[i].lastAnswer <= now
        BY <1>0, <3>5, ItemFacts DEF ItemsInv
      <4>2. poller'.items[i].lastAnswer \in Nat \cup {-1} /\ poller'.items[i].lastAnswer <= now
        BY <2>1, <3>1, <3>5, <4>1
      <4>3. record'[poller'.items[i].pid] = r
        BY <2>2, <3>3, <3>5, <3>6
      <4> QED
        BY <3>1, <4>2, <4>3, Durations
    <3>7. CASE poller.items[i].pid # current
      <4>1. poller'.items[i].lastAnswer = poller.items[i].lastAnswer
        BY <2>1, <3>5, <3>7
      <4>2. record'[poller'.items[i].pid] = record[poller.items[i].pid]
        BY <3>3, <3>4, <3>5, <3>7
      <4> QED
        BY <3>4, <3>5, <4>1, <4>2 DEF RecordsInv
    <3> QED
      BY <3>6, <3>7
  <2> QED
    BY <2>2, <2>3, <2>4
<1>5. CASE LoopTop \/ LoopExit \/ Wake \/ DiscoverFail
  BY <1>5, SameRecords DEF LoopTop, LoopExit, Wake, DiscoverFail
<1>6. CASE PollIdle \/ IdleEnd \/ Publish
  BY <1>6, SameRecords DEF PollIdle, IdleEnd, Publish
<1>7. CASE onTelltales
  BY <1>0, <1>7, SameRecords, TelltalesFacts
<1>8. CASE Stop \/ StopJoined \/ Advance
  BY <1>8, SameRecords DEF Stop, StopJoined, Advance
<1>9. ASSUME NEW kind \in Records, BmsReplies(kind)
      PROVE  RecordsInv'
  BY <1>9, SameRecords DEF BmsReplies
<1>10. ASSUME NEW lit \in SUBSET Lamps, Broadcast(lit)
       PROVE  RecordsInv'
  BY <1>10, SameRecords DEF Broadcast
<1>11. ASSUME NEW ecus \in Movers, Moves(ecus)
       PROVE  RecordsInv'
  BY <1>11, SameRecords DEF Moves
<1>12. CASE UNCHANGED vars
  BY <1>12, SameRecords
<1>13. CASE DiscoverNextBlock
  BY <1>13, SameRecords, NextBlockFacts
<1> QED
  BY <1>1, <1>2, <1>3, <1>4, <1>5, <1>6, <1>7, <1>8, <1>9, <1>10, <1>11, <1>12, <1>13, Steps

THEOREM RecordsInvariance == Spec => []RecordsInv
<1>1. Init => RecordsInv
  <2>1. Init => Len(poller.items) = 0
    BY DEF Init, clear
  <2> QED
    BY <2>1 DEF RecordsInv
<1> QED
  BY <1>1, StateInvariance, RecordsStep, PTL DEF Spec

\* A DID that is handed over as valid was sent within three of its intervals and a lag,
\* whatever the battery ECU sends late.
THEOREM RecordsAreRecent == Spec => RecordsRecent
<1> DEFINE Step == HandsOver => \A did \in Dids :
                       signalsOf(did) \cap published'.valid # {}
                          => /\ record[did].sent # Never
                             /\ (IF pc = "discover" THEN loopNow ELSE now) - record[did].sent
                                   <= 3 * interval(did) + MaxLag
<1>1. StateInv /\ RecordsInv /\ [Next]_vars => [Step]_vars
  <2> SUFFICES ASSUME StateInv, RecordsInv, [Next]_vars, HandsOver, NEW did \in Dids,
                      signalsOf(did) \cap published'.valid # {}
               PROVE  /\ record[did].sent # Never
                      /\ (IF pc = "discover" THEN loopNow ELSE now) - record[did].sent
                            <= 3 * interval(did) + MaxLag
    OBVIOUS
  <2>1. ThreadInv /\ now \in Nat /\ loopNow \in Nat
    BY DEF StateInv, ClockInv
  <2>2. CASE pc = "publish" /\ published' = vehicleState(values, now)
    BY <2>1, <2>2, ValidIsRecent
  <2>3. CASE pc = "discover" /\ published' = vehicleState(NoValues, loopNow)
    BY <2>1, <2>3, ValidIsRecent
  <2> QED
    BY <2>1, <2>2, <2>3, HandsOverFacts
<1> HIDE DEF Step
<1>2. Spec => [][Step]_vars
  BY <1>1, StateInvariance, RecordsInvariance, PTL DEF Spec
<1> QED
  BY <1>2 DEF Step, RecordsRecent
-----------------------------------------------------------------------------
(***************************************************************************)
(* Sums of times, with products and differences hidden in them.            *)
(***************************************************************************)

LEMMA NoLater ==
    ASSUME NEW a \in Nat, NEW b \in Nat, NEW c \in Nat, a <= b, b <= c
    PROVE  a <= c
OBVIOUS

LEMMA LongerStill ==
    ASSUME NEW a \in Nat, NEW b \in Nat, NEW c \in Nat, NEW d \in Nat, a <= b + c, c <= d
    PROVE  a <= b + d
OBVIOUS

LEMMA LagLater ==
    ASSUME NEW a \in Nat, NEW b \in Nat, NEW c \in Nat, NEW d \in Nat,
           a <= b + c, b <= d
    PROVE  a <= d + c
OBVIOUS

\* q polls that take their whole timeout and a lag.
Lasts(q) == q * (Fast + MaxLag)

LEMMA LastsFacts ==
    ASSUME NEW q \in Nat
    PROVE  /\ Lasts(q) \in Nat /\ Lasts(q + 1) = Lasts(q) + Fast + MaxLag
           /\ Lasts(0) = 0
           /\ Lasts(4) = 4 * Fast + 4 * MaxLag /\ Lasts(8) = 8 * Fast + 8 * MaxLag
<1> DEFINE d == Fast + MaxLag
<1>1. d \in Nat /\ \A k \in Nat : Lasts(k) = k * d
  BY Durations DEF Lasts
<1> HIDE DEF d
<1>2. Lasts(q) = q * d /\ Lasts(q + 1) = (q + 1) * d
  BY <1>1
<1>3. q * d \in Nat /\ (q + 1) * d = q * d + d
  BY <1>1
<1>4. Lasts(0) = 0 /\ Lasts(4) = 4 * d /\ Lasts(8) = 8 * d
  BY <1>1
<1>5. Lasts(q) \in Nat /\ Lasts(q + 1) = Lasts(q) + d
  BY <1>2, <1>3
<1> QED
  BY <1>4, <1>5, Durations DEF d

LEMMA LastsMonotone ==
    ASSUME NEW p \in Nat, NEW q \in Nat, p <= q
    PROVE  Lasts(p) <= Lasts(q)
<1> DEFINE d == Fast + MaxLag
           e == q - p
<1>1. d \in Nat /\ e \in Nat /\ q = p + e
  BY Durations
<1>2. Lasts(p) = p * d /\ Lasts(q) = (p + e) * d
  BY <1>1 DEF Lasts
<1> HIDE DEF d, e
<1>3. (p + e) * d = p * d + e * d /\ p * d \in Nat /\ e * d \in Nat
  BY <1>1
<1> QED
  BY <1>2, <1>3
-----------------------------------------------------------------------------
(***************************************************************************)
(* A loss that is reported.                                                *)
(***************************************************************************)

\* What the thread was woken for or polls next.
DueInv ==
    /\ pc = "poll" => loopNow = now \/ \A i \in 1 .. Len(poller.items) : poller.items[i].due = 0
    /\ pc = "idle" => \A i \in 1 .. Len(poller.items) : wakeBy <= poller.items[i].due

LEMMA DueStep == StateInv /\ DueInv /\ [Next]_vars => DueInv'
<1> SUFFICES ASSUME StateInv, DueInv, [Next]_vars
             PROVE  DueInv'
  OBVIOUS
<1>0. HeardWaits /\ ThreadInv /\ ClockInv /\ ItemsInv /\ PolledInv
  BY DEF StateInv, ThreadInv
<1>1. ASSUME pc' \notin {"poll", "idle"}
      PROVE  DueInv'
  BY <1>1 DEF DueInv
<1>2. CASE LoopTop
  BY <1>2 DEF LoopTop, DueInv
<1>3. CASE DiscoveryEnds
  <2>1. pc' = "poll"
    BY <1>3, DiscoveryFacts
  <2>2. PICK keys : Started(poller', keys)
    BY <1>0, <1>3, DiscoveryStarts
  <2> QED
    BY <2>1, <2>2 DEF Started, DueInv
<1>4. CASE PollIdle
  <2>1. /\ pc = "poll" /\ pc' = "idle" /\ UNCHANGED <<now, poller>>
        /\ DueItems(poller, loopNow) = {} /\ loopNow \in Nat /\ now \in Nat
    BY <1>0, <1>4 DEF PollIdle, ClockInv
  <2>2. /\ wakeBy' \in Nat
        /\ \A i \in 1 .. Len(poller.items) :
              poller.items[i].due > loopNow => wakeBy' - now <= poller.items[i].due - loopNow
    BY <1>0, <1>4, IdleFacts
  <2>3. ASSUME NEW i \in 1 .. Len(poller.items)
        PROVE  wakeBy' <= poller.items[i].due
    <3>1. poller.items[i].due \in Nat /\ i \in DOMAIN poller.items
      BY <1>0, ItemFacts DEF ItemsInv
    <3>2. poller.items[i].due > loopNow
      BY <2>1, <3>1 DEF DueItems
    <3>3. loopNow = now
      BY <2>1, <3>1, <3>2 DEF DueInv
    <3> QED
      BY <2>1, <2>2, <3>1, <3>2, <3>3
  <2> QED
    BY <2>1, <2>3 DEF DueInv
<1>5. CASE Probes
  BY <1>0, <1>1, <1>5, ProbeFacts
<1>6. CASE PollRequest
  BY <1>0, <1>1, <1>6, RequestsFacts DEF AsksEngine, AsksBms
<1>7. CASE QueryAnswer \/ QueryFail \/ PollDidReply \/ PollDidFail
  BY <1>1, <1>7, PollEnds
<1>8. CASE LoopExit \/ Wake \/ DiscoverFail
  BY <1>1, <1>8 DEF LoopExit, Wake, return, DiscoverFail
<1>9. CASE IdleEnd \/ Publish \/ StopJoined
  BY <1>1, <1>9 DEF IdleEnd, return, Publish, StopJoined
<1>10. CASE onTelltales
  BY <1>0, <1>1, <1>10, TelltalesFacts DEF RawCalls
<1>11. CASE Advance
  BY <1>11 DEF Advance, DueInv
<1>12. CASE Stop
  BY <1>12 DEF Stop, DueInv
<1>13. ASSUME NEW kind \in Records, BmsReplies(kind)
       PROVE  DueInv'
  BY <1>13 DEF BmsReplies, DueInv
<1>14. ASSUME NEW lit \in SUBSET Lamps, Broadcast(lit)
       PROVE  DueInv'
  BY <1>14 DEF Broadcast, DueInv
<1>15. ASSUME NEW ecus \in Movers, Moves(ecus)
       PROVE  DueInv'
  BY <1>15 DEF Moves, DueInv
<1>16. CASE UNCHANGED vars
  BY <1>16 DEF DueInv
<1>17. CASE DiscoverNextBlock
  BY <1>17, NextBlockFacts DEF DueInv
<1> QED
  BY <1>2, <1>3, <1>4, <1>5, <1>6, <1>7, <1>8, <1>9, <1>10, <1>11, <1>12, <1>13, <1>14,
     <1>15, <1>16, <1>17, Steps

\* With eight polls in a row unanswered the link is taken down.
StreakInv ==
    discovered => IF pc \in {"query", "pollDid"}
                  THEN poller.unanswered >= 1 /\ poller.unanswered <= 8
                  ELSE poller.unanswered <= 7

LEMMA StreakStep == StateInv /\ StreakInv /\ [Next]_vars => StreakInv'
<1> SUFFICES ASSUME StateInv, StreakInv, [Next]_vars, discovered'
             PROVE  IF pc' \in {"query", "pollDid"}
                    THEN poller'.unanswered >= 1 /\ poller'.unanswered <= 8
                    ELSE poller'.unanswered <= 7
  BY DEF StreakInv
<1>0. HeardWaits /\ ThreadInv /\ ClockInv /\ ItemsInv /\ PolledInv /\ poller.unanswered \in Nat
  BY ItemFacts DEF StateInv, ThreadInv, ItemsInv
<1>1. ASSUME UNCHANGED <<discovered, poller>>,
             pc' \in {"query", "pollDid"} <=> pc \in {"query", "pollDid"}
      PROVE  IF pc' \in {"query", "pollDid"}
             THEN poller'.unanswered >= 1 /\ poller'.unanswered <= 8
             ELSE poller'.unanswered <= 7
  <2>1. discovered
    BY <1>1
  <2> QED
    BY <1>1, <2>1 DEF StreakInv
<1>2. CASE Probes
  BY <1>0, <1>2, ProbeFacts DEF ThreadInv
<1>3. CASE DiscoveryEnds
  <2>1. pc' = "poll"
    BY <1>3, DiscoveryFacts
  <2>2. PICK keys : Started(poller', keys)
    BY <1>0, <1>3, DiscoveryStarts
  <2> QED
    BY <2>1, <2>2 DEF Started
<1>4. CASE PollRequest
  <2>1. pc = "poll" /\ pc' \in {"query", "pollDid"} /\ UNCHANGED discovered
    BY <1>0, <1>4, RequestsFacts DEF AsksEngine, AsksBms
  <2>2. poller'.unanswered = poller.unanswered + 1
    BY <1>0, <1>4, RequestedItems
  <2>3. poller.unanswered <= 7
    BY <2>1 DEF StreakInv
  <2> QED
    BY <1>0, <2>1, <2>2, <2>3
<1>5. CASE QueryAnswer \/ QueryFail \/ PollDidReply \/ PollDidFail
  <2>1. /\ pc \in {"query", "pollDid"} /\ pc' \in {"publish", "top"}
        /\ \/ poller' = markAnswered(poller, current, now)
           \/ poller' = poller /\ poller.unanswered < 8
           \/ discovered' = FALSE
    BY <1>5, PollEnds
  <2>2. CASE poller' = markAnswered(poller, current, now)
    <3>1. current \in PidsOf(poller)
      BY <1>0, <2>1 DEF ItemsInv
    <3>2. poller'.unanswered = 0
      BY <1>0, <2>2, <3>1, AnsweredItems
    <3> QED
      BY <2>1, <3>2
  <2>3. CASE poller' = poller /\ poller.unanswered < 8
    BY <1>0, <2>1, <2>3
  <2> QED
    BY <2>1, <2>2, <2>3
<1>6. CASE LoopTop \/ LoopExit \/ Wake \/ DiscoverFail
  BY <1>1, <1>6 DEF LoopTop, LoopExit, Wake, return, DiscoverFail
<1>7. CASE PollIdle \/ IdleEnd \/ Publish \/ StopJoined
  BY <1>1, <1>7 DEF PollIdle, IdleEnd, return, Publish, StopJoined
<1>8. CASE onTelltales
  <2>1. /\ UNCHANGED <<discovered, poller>>
        /\ \/ pc = "idle" /\ pc' = "publish"
           \/ pc' = pc
    BY <1>0, <1>8, TelltalesFacts
  <2> QED
    BY <1>1, <2>1
<1>9. CASE Stop \/ Advance
  BY <1>1, <1>9 DEF Stop, Advance
<1>10. ASSUME NEW kind \in Records, BmsReplies(kind)
       PROVE  UNCHANGED <<discovered, poller, pc>>
  BY <1>10 DEF BmsReplies
<1>11. ASSUME NEW lit \in SUBSET Lamps, Broadcast(lit)
       PROVE  UNCHANGED <<discovered, poller, pc>>
  BY <1>11 DEF Broadcast
<1>12. ASSUME NEW ecus \in Movers, Moves(ecus)
       PROVE  UNCHANGED <<discovered, poller, pc>>
  BY <1>12 DEF Moves
<1>13. CASE UNCHANGED vars
  BY <1>1, <1>13
<1>14. CASE DiscoverNextBlock
  BY <1>1, <1>14, NextBlockFacts
<1> QED
  BY <1>1, <1>2, <1>3, <1>4, <1>5, <1>6, <1>7, <1>8, <1>9, <1>10, <1>11, <1>12, <1>13, <1>14, Steps


\* After both ECUs have left nothing new comes, and what is left of a discovery ends:
\* the block that was asked for, then at most one probe.
GoneInv ==
    up = {} =>
       /\ \A i \in 1 .. Len(rx) : rx[i].sent <= since
       /\ pc = "discover" /\ block > 1 => wakeBy <= since + DiscoverTimeout
       /\ pc = "probePack" => wakeBy <= since + 2 * DiscoverTimeout + MaxLag
       /\ pc = "probeAssist" => wakeBy <= since + DiscoverTimeout + MaxLag

LEMMA GoneStep == StateInv /\ GoneInv /\ [Next]_vars => GoneInv'
<1> SUFFICES ASSUME StateInv, GoneInv, [Next]_vars
             PROVE  GoneInv'
  OBVIOUS
<1>0. /\ HeardWaits /\ ThreadInv /\ IsoInv /\ CallInv
      /\ up \subseteq Ecus /\ (owed # <<>> => "bms" \in up)
  BY DEF StateInv, ThreadInv, IsoInv
<1>1. ASSUME UNCHANGED <<up, since>>, rx' = rx \/ rx' = <<>>,
             pc' \in {"probePack", "probeAssist"} => UNCHANGED <<pc, wakeBy>>,
             pc' = "discover" /\ block' > 1 => UNCHANGED <<pc, block, wakeBy>>
      PROVE  GoneInv'
  <2>1. rx' = <<>> => Len(rx') = 0
    OBVIOUS
  <2>2. up = {} => \A i \in 1 .. Len(rx') : rx'[i].sent <= since
    BY <1>1, <2>1 DEF GoneInv
  <2> QED
    BY <1>1, <2>2 DEF GoneInv
<1>2. ASSUME UNCHANGED <<up, since>>, read, pc' \notin {"discover", "probePack", "probeAssist"}
      PROVE  GoneInv'
  <2>1. CASE rx = <<>>
    BY <1>1, <1>2, <2>1 DEF read
  <2>2. CASE rx # <<>>
    <3>1. rx' = Tail(rx) /\ rx \in Seq(Replies) /\ Len(rx) \in Nat
      BY <1>0, <1>2, <2>2 DEF read, IsoInv
    <3>2. Len(rx') = Len(rx) - 1
      BY <2>2, <3>1
    <3>3. \A i \in 1 .. Len(rx') : rx'[i] = rx[i + 1]
      BY <2>2, <3>1, HeadTailProperties
    <3>4. \A i \in 1 .. (Len(rx) - 1) : i + 1 \in 1 .. Len(rx)
      BY <3>1
    <3> QED
      BY <1>2, <3>2, <3>3, <3>4 DEF GoneInv
  <2> QED
    BY <2>1, <2>2
<1>3. CASE DiscoverObd
  <2>1. CASE DiscoverLastBlock
    <3>1. heard /\ UNCHANGED up
      BY <2>1 DEF DiscoverLastBlock, ObdFound
    <3>2. up' # {}
      BY <1>0, <3>1 DEF HeardWaits
    <3> QED
      BY <3>2 DEF GoneInv
  <2>2. CASE DiscoverCutShort
    <3>1. pc = "discover" /\ block > 1
      BY <2>2 DEF DiscoverCutShort
    <3>2. /\ UNCHANGED <<up, since, now>>
          /\ \/ pc' = "probePack" /\ wakeBy' = now + DiscoverTimeout /\ rx' = <<>>
             \/ pc' = "poll" /\ rx' = rx
      BY <1>3, ObdFacts, TransactFacts DEF ObdFound, Discovered, return
    <3>3. now <= wakeBy + MaxLag /\ now \in Nat /\ wakeBy \in Nat /\ since \in Nat
      BY <1>0, <3>1 DEF CallInv, Blocking, RawCalls, StateInv, ClockInv
    <3>4. up = {} => now + DiscoverTimeout <= since + 2 * DiscoverTimeout + MaxLag
      BY <3>1, <3>3, Durations DEF GoneInv
    <3>5. CASE pc' = "probePack" /\ wakeBy' = now + DiscoverTimeout /\ rx' = <<>>
      <4>1. Len(rx') = 0
        BY <3>5
      <4> QED
        BY <3>2, <3>4, <3>5, <4>1 DEF GoneInv
    <3>6. CASE pc' = "poll" /\ rx' = rx
      BY <1>1, <3>2, <3>6
    <3> QED
      BY <3>2, <3>5, <3>6
  <2> QED
    BY <1>3, <2>1, <2>2 DEF DiscoverObd
<1>4. CASE ProbePackAnswer
  <2>1. /\ UNCHANGED <<up, since, now>> /\ rx' = <<>> /\ rx # <<>>
        /\ pc = "probePack" /\ pc' = "probeAssist" /\ wakeBy' = now + DiscoverTimeout
    BY <1>4, TransactFacts DEF ProbePackAnswer, Positive
  <2>2. now <= rx[1].sent + MaxLag /\ 1 \in 1 .. Len(rx) /\ rx[1].sent \in Nat
    BY <1>0, <2>1, ReplyFacts DEF IsoInv, IsoCalls
  <2>3. up = {} => rx[1].sent <= since
    BY <2>2 DEF GoneInv
  <2>4. up = {} => wakeBy' <= since + DiscoverTimeout + MaxLag
    BY <2>1, <2>2, <2>3, Durations DEF StateInv, ClockInv
  <2>5. Len(rx') = 0
    BY <2>1
  <2> QED
    BY <2>1, <2>4, <2>5 DEF GoneInv
<1>5. CASE ProbePackFail
  BY <1>2, <1>5 DEF ProbePackFail, Discovered, return
<1>6. CASE ProbeAssist
  BY <1>2, <1>6 DEF ProbeAssist, Discovered, return
<1>7. CASE PollRequest
  <2>1. /\ UNCHANGED <<up, since>> /\ (rx' = rx \/ rx' = <<>>)
        /\ pc' \notin {"discover", "probePack", "probeAssist"}
    BY <1>0, <1>7, RequestsFacts DEF AsksEngine, AsksBms
  <2> QED
    BY <1>1, <2>1
<1>8. CASE QueryAnswer \/ QueryFail \/ PollDidReply \/ PollDidFail
  <2>1. UNCHANGED <<up, since>> /\ pc' \notin {"discover", "probePack", "probeAssist"}
    BY <1>8, PollEnds
  <2>2. read \/ rx' = rx
    BY <1>8 DEF QueryAnswer, QueryFail, PollDidReply, PollDidFail
  <2> QED
    BY <1>1, <1>2, <2>1, <2>2
<1>9. CASE LoopTop \/ LoopExit \/ Wake \/ DiscoverFail
  BY <1>1, <1>9 DEF LoopTop, LoopExit, Wake, return, DiscoverFail
<1>10. CASE PollIdle \/ IdleEnd \/ Publish \/ StopJoined
  BY <1>1, <1>10 DEF PollIdle, IdleEnd, return, Publish, StopJoined
<1>11. CASE onTelltales
  <2>1. /\ UNCHANGED <<up, since, rx>>
        /\ pc' = "publish" \/ UNCHANGED <<pc, block, wakeBy>>
    BY <1>0, <1>11, TelltalesFacts
  <2> QED
    BY <1>1, <2>1
<1>12. CASE Stop \/ Advance
  BY <1>1, <1>12 DEF Stop, Advance
<1>13. ASSUME NEW kind \in Records, BmsReplies(kind)
       PROVE  GoneInv'
  <2>1. UNCHANGED up /\ up # {}
    BY <1>0, <1>13 DEF BmsReplies
  <2> QED
    BY <2>1 DEF GoneInv
<1>14. ASSUME NEW lit \in SUBSET Lamps, Broadcast(lit)
       PROVE  GoneInv'
  BY <1>1, <1>14 DEF Broadcast
<1>15. ASSUME NEW ecus \in Movers, Moves(ecus)
       PROVE  GoneInv'
  <2>1. UNCHANGED <<now, pc, rx, wakeBy, block>> /\ since' = now
    BY <1>15 DEF Moves
  <2>2. \A i \in 1 .. Len(rx) : rx[i].sent <= now
    BY <1>0 DEF IsoInv
  <2>3. /\ pc \in {"discover", "probePack", "probeAssist"} => wakeBy <= now + DiscoverTimeout
        /\ wakeBy \in Nat /\ now \in Nat
    BY <1>0 DEF CallInv, StateInv, ClockInv
  <2> QED
    BY <2>1, <2>2, <2>3, Durations DEF GoneInv
<1>16. CASE UNCHANGED vars
  BY <1>1, <1>16
<1>17. CASE DiscoverNextBlock
  <2>1. UNCHANGED up /\ up # {}
    BY <1>0, <1>17, NextBlockFacts DEF HeardWaits
  <2> QED
    BY <2>1 DEF GoneInv
<1> QED
  BY <1>3, <1>4, <1>5, <1>6, <1>7, <1>8, <1>9, <1>10, <1>11, <1>12, <1>13, <1>14, <1>15,
     <1>16, <1>17, Steps DEF Probes, DiscoveryEnds

\* How long u polls without an answer take, after a first call that was begun before.
Base == Max({Fast, 2 * DiscoverTimeout}) + 2 * MaxLag
Silent(u) == Base + Lasts(u)

LEMMA SilentFacts ==
    ASSUME NEW u \in Nat
    PROVE  /\ Base \in Nat /\ Base >= Fast + MaxLag /\ Base >= 2 * DiscoverTimeout + 2 * MaxLag
           /\ Base = Max({Fast, 2 * DiscoverTimeout}) + 2 * MaxLag
           /\ Silent(u) \in Nat /\ Silent(u) >= Base
           /\ Silent(u + 1) = Silent(u) + Fast + MaxLag
           /\ u <= 8 => Silent(u) <= Base + 8 * Fast + 8 * MaxLag
<1>1. Max({Fast, 2 * DiscoverTimeout})
        = IF Fast >= 2 * DiscoverTimeout THEN Fast ELSE 2 * DiscoverTimeout
  <2>1. Fast \in Int /\ 2 * DiscoverTimeout \in Int
    BY Durations
  <2> QED
    BY <2>1, MinMaxOfTwo
<1>2. /\ Base \in Nat /\ Base >= Fast + MaxLag /\ Base >= 2 * DiscoverTimeout + 2 * MaxLag
      /\ Base = Max({Fast, 2 * DiscoverTimeout}) + 2 * MaxLag
  BY <1>1, Durations DEF Base
<1>3. /\ Lasts(u) \in Nat /\ Lasts(u + 1) = Lasts(u) + Fast + MaxLag
      /\ Lasts(8) = 8 * Fast + 8 * MaxLag
  BY LastsFacts
<1>4. u <= 8 => Lasts(u) <= Lasts(8)
  BY LastsMonotone
<1>5. Silent(u) = Base + Lasts(u) /\ Silent(u + 1) = Base + Lasts(u + 1)
  BY DEF Silent
<1> QED
  BY <1>2, <1>3, <1>4, <1>5, Durations

\* Every fast-tier item is due soon, and an unanswered poll of it adds to the streak.
FastItem(i) == poller.items[i].pid \in {"SPEED", "DRIVE"}

SilentItem(i) ==
    /\ poller.items[i].due <= since + Silent(poller.unanswered)
    /\ pc \in {"query", "pollDid"} => wakeBy <= since + Silent(poller.unanswered)
    /\ pc \notin {"query", "pollDid"} => now <= since + Silent(poller.unanswered) + MaxLag

SilentStreak ==
    up = {} /\ discovered => \A i \in 1 .. Len(poller.items) : FastItem(i) => SilentItem(i)

\* A fast-tier item is due at most a fast interval from now.
LEMMA FastDue ==
    ASSUME StateInv, NEW i \in 1 .. Len(poller.items), FastItem(i)
    PROVE  /\ poller.items[i].interval = Fast /\ poller.items[i].due \in Nat
           /\ poller.items[i].due <= now + Fast
<1>1. /\ poller.items[i].interval = interval(poller.items[i].pid)
      /\ poller.items[i].due <= now + poller.items[i].interval /\ PollerOk(poller, Keys)
  BY DEF StateInv, ItemsInv
<1>2. poller.items[i].due \in Nat
  BY <1>1, ItemFacts
<1> QED
  BY <1>1, <1>2, Intervals DEF FastItem

\* A poll of silent ECUs adds one to the streak, at most a fast interval later.
LEMMA StreakAsked ==
    ASSUME StateInv, SilentStreak, PollRequest
    PROVE  SilentStreak'
<1>0. /\ HeardWaits /\ ItemsInv /\ ClockInv /\ PollerOk(poller, Keys)
      /\ loopNow \in Nat /\ now \in Nat /\ loopNow <= now /\ since \in Nat
  BY DEF StateInv, ThreadInv, ItemsInv, ClockInv
<1>1. /\ UNCHANGED <<now, since, up, discovered>> /\ wakeBy' = now + Fast
      /\ pc = "poll" /\ pc' \in {"query", "pollDid"}
  BY <1>0, RequestsFacts DEF AsksEngine, AsksBms
<1> DEFINE u == poller.unanswered
<1>2. PICK k \in 1 .. Len(poller.items) :
         /\ Len(poller'.items) = Len(poller.items) /\ poller'.unanswered = u + 1
         /\ \A i \in 1 .. Len(poller.items) :
               /\ poller'.items[i].pid = poller.items[i].pid
               /\ poller'.items[i].due = IF i = k THEN loopNow + poller.items[k].interval
                                         ELSE poller.items[i].due
  BY <1>0, RequestedItems
<1>3. /\ u \in Nat /\ Silent(u) \in Nat /\ Silent(u + 1) = Silent(u) + Fast + MaxLag
      /\ Fast \in Nat /\ MaxLag \in Nat
  BY <1>0, ItemFacts, SilentFacts, Durations
<1> SUFFICES ASSUME up = {}, discovered, NEW i \in 1 .. Len(poller.items), FastItem(i)
             PROVE  /\ wakeBy' <= since + Silent(u + 1)
                    /\ poller'.items[i].due <= since + Silent(u + 1)
  BY <1>1, <1>2 DEF SilentStreak, FastItem, SilentItem
<1>4. now <= since + Silent(u) + MaxLag /\ poller.items[i].due <= since + Silent(u)
  BY <1>1 DEF SilentStreak, SilentItem
<1>5. poller.items[i].interval = Fast /\ poller.items[i].due \in Nat
  BY FastDue
<1>6. poller'.items[i].due = loopNow + Fast \/ poller'.items[i].due = poller.items[i].due
  BY <1>2, <1>5
<1> HIDE DEF u
<1>7. now + Fast <= since + Silent(u + 1)
  BY <1>0, <1>3, <1>4
<1>8. loopNow + Fast <= since + Silent(u + 1)
  BY <1>0, <1>3, <1>7
<1>9. poller.items[i].due <= since + Silent(u + 1)
  <2>1. Silent(u + 1) \in Nat /\ Silent(u) <= Silent(u + 1)
    BY <1>3
  <2> QED
    BY <1>0, <1>3, <1>4, <1>5, <2>1, LongerStill, Zenon
<1> QED
  BY <1>1, <1>6, <1>7, <1>8, <1>9


LEMMA SilentStep ==
    StateInv /\ DueInv /\ StreakInv /\ GoneInv /\ SilentStreak /\ [Next]_vars => SilentStreak'
<1> SUFFICES ASSUME StateInv, DueInv, StreakInv, GoneInv, SilentStreak, [Next]_vars
             PROVE  SilentStreak'
  OBVIOUS
<1>0. /\ HeardWaits /\ ThreadInv /\ ClockInv /\ CallInv /\ ItemsInv /\ PolledInv /\ IsoInv
      /\ up \subseteq Ecus /\ (owed # <<>> => "bms" \in up) /\ ThreadInv'
  BY StateStep DEF StateInv, ThreadInv, IsoInv
<1>1. /\ now \in Nat /\ since \in Nat /\ wakeBy \in Nat /\ Fast \in Nat /\ MaxLag \in Nat
      /\ DiscoverTimeout \in Nat /\ poller.unanswered \in Nat
  BY <1>0, ItemFacts, Durations DEF ClockInv, CallInv, ItemsInv
<1>2. /\ Silent(poller.unanswered) \in Nat /\ Silent(poller.unanswered) >= Base
      /\ Silent(0) \in Nat /\ Silent(0) >= Base
      /\ Base \in Nat /\ Base >= Fast + MaxLag /\ Base >= 2 * DiscoverTimeout + 2 * MaxLag
  BY <1>1, SilentFacts
<1>3. ASSUME up' # {} \/ ~discovered'
      PROVE  SilentStreak'
  BY <1>3 DEF SilentStreak
<1>4. ASSUME UNCHANGED <<up, now, since, poller>>, discovered' => discovered,
             pc \notin {"query", "pollDid"}, pc' \notin {"query", "pollDid"}
      PROVE  SilentStreak'
  BY <1>4 DEF SilentStreak, FastItem, SilentItem
<1>5. ASSUME UNCHANGED <<up, now, since, poller, discovered, pc, wakeBy>>
      PROVE  SilentStreak'
  BY <1>5 DEF SilentStreak, FastItem, SilentItem
<1>6. CASE Probes
  BY <1>0, <1>3, <1>6, ProbeFacts DEF ThreadInv
<1>7. CASE DiscoveryEnds
  <2>1. UNCHANGED <<up, now, since>> /\ pc' = "poll"
    BY <1>7, DiscoveryFacts
  <2>2. PICK keys : Started(poller', keys)
    BY <1>0, <1>7, DiscoveryStarts
  <2>3. CASE up # {}
    BY <1>3, <2>1, <2>3
  <2>4. CASE up = {}
    <3>1. pc \in {"probePack", "probeAssist"} \/ (pc = "discover" /\ block > 1)
      <4>1. ~DiscoverLastBlock
        BY <1>0, <2>4 DEF DiscoverLastBlock, HeardWaits
      <4> QED
        BY <1>7, <4>1 DEF DiscoveryEnds, DiscoverObd, DiscoverCutShort, ProbePackFail,
                          ProbeAssist
    <3>2. wakeBy <= since + 2 * DiscoverTimeout + MaxLag
      BY <1>1, <2>4, <3>1 DEF GoneInv
    <3>3. now <= wakeBy + MaxLag
      BY <1>0, <3>1 DEF CallInv, Blocking, RawCalls, IsoCalls
    <3>4. now <= since + Silent(0) + MaxLag
      BY <1>1, <1>2, <3>2, <3>3
    <3>5. 0 <= since + Silent(0)
      BY <1>1, <1>2
    <3> QED
      BY <2>1, <2>2, <3>4, <3>5 DEF SilentStreak, SilentItem, Started
  <2> QED
    BY <2>3, <2>4
<1>8. CASE PollRequest
  BY <1>8, StreakAsked
<1>9. CASE QueryAnswer \/ QueryFail \/ PollDidReply \/ PollDidFail
  <2>1. /\ pc \in {"query", "pollDid"} /\ pc' \in {"publish", "top"}
        /\ UNCHANGED <<up, now, since>>
        /\ \/ poller' = markAnswered(poller, current, now)
           \/ poller' = poller /\ UNCHANGED discovered /\ poller.unanswered < 8
           \/ discovered' = FALSE
        /\ discovered' = discovered \/ discovered' = FALSE
    BY <1>9, PollEnds
  <2>2. now <= wakeBy + MaxLag
    BY <1>0, <2>1 DEF CallInv, Blocking, RawCalls, IsoCalls
  <2>3. CASE up # {} \/ ~discovered'
    BY <1>3, <2>1, <2>3
  <2>4. CASE poller' = poller /\ discovered' /\ up = {}
    <3>1. SUFFICES ASSUME NEW i \in 1 .. Len(poller.items), FastItem(i)
                   PROVE  /\ poller.items[i].due <= since + Silent(poller.unanswered)
                          /\ now <= since + Silent(poller.unanswered) + MaxLag
      BY <2>1, <2>4 DEF SilentStreak, FastItem, SilentItem
    <3>2. discovered
      BY <2>1, <2>4
    <3>3. /\ poller.items[i].due <= since + Silent(poller.unanswered)
          /\ wakeBy <= since + Silent(poller.unanswered)
      BY <2>1, <2>4, <3>1, <3>2 DEF SilentStreak, SilentItem
    <3> QED
      BY <1>1, <1>2, <2>2, <3>3
  <2>5. CASE poller' = markAnswered(poller, current, now) /\ poller' # poller
             /\ discovered' /\ up = {}
    <3>1. PollDidReply /\ rx # <<>>
      <4>1. ~QueryAnswer
        BY <1>0, <2>5 DEF QueryAnswer, HeardWaits
      <4>2. ~QueryFail /\ ~PollDidFail
        BY <2>5 DEF QueryFail, PollDidFail, Unanswered
      <4> QED
        BY <1>9, <4>1, <4>2 DEF PollDidReply, Positive
    <3>2. /\ now <= rx[1].sent + MaxLag /\ 1 \in 1 .. Len(rx) /\ rx[1].sent \in Nat
      BY <1>0, <3>1, ReplyFacts DEF PollDidReply, IsoInv, IsoCalls
    <3>3. rx[1].sent <= since
      BY <2>5, <3>2 DEF GoneInv
    <3>4. now <= since + MaxLag
      BY <1>1, <3>2, <3>3
    <3>5. current \in PidsOf(poller)
      BY <1>0, <2>1 DEF ItemsInv
    <3>6. /\ Len(poller'.items) = Len(poller.items) /\ poller'.unanswered = 0
          /\ \A i \in 1 .. Len(poller.items) : /\ poller'.items[i].pid = poller.items[i].pid
                                               /\ poller'.items[i].due = poller.items[i].due
      BY <1>0, <2>5, <3>5, AnsweredItems
    <3>7. SUFFICES ASSUME NEW i \in 1 .. Len(poller.items), FastItem(i)
                   PROVE  /\ poller.items[i].due <= since + Silent(0)
                          /\ now <= since + Silent(0) + MaxLag
      BY <2>1, <3>6 DEF SilentStreak, FastItem, SilentItem
    <3>8. poller.items[i].due \in Nat /\ poller.items[i].due <= now + Fast
      BY <3>7, FastDue
    <3>9. /\ now + Fast \in Nat /\ since + Silent(0) \in Nat
          /\ now + Fast <= since + Silent(0) /\ now <= since + Silent(0) + MaxLag
      BY <1>1, <1>2, <3>4
    <3> QED
      BY <3>8, <3>9, NoLater, Zenon
  <2> QED
    BY <2>1, <2>3, <2>4, <2>5
<1>10. CASE LoopTop \/ LoopExit \/ Wake \/ DiscoverFail
  BY <1>4, <1>10 DEF LoopTop, LoopExit, Wake, return, DiscoverFail
<1>11. CASE PollIdle \/ IdleEnd \/ Publish \/ StopJoined
  BY <1>4, <1>11 DEF PollIdle, IdleEnd, return, Publish, StopJoined
<1>12. CASE onTelltales
  <2>1. /\ UNCHANGED <<up, now, since, poller, discovered>>
        /\ \/ pc = "idle" /\ pc' = "publish"
           \/ UNCHANGED <<pc, wakeBy>>
    BY <1>0, <1>12, TelltalesFacts
  <2> QED
    BY <1>4, <1>5, <2>1
<1>13. CASE Stop
  BY <1>5, <1>13 DEF Stop
<1>14. CASE Advance
  <2>1. /\ UNCHANGED <<up, since, poller, discovered, pc, wakeBy>> /\ pc \in Blocking
        /\ now' = now + 1 /\ now' <= wakeBy + MaxLag
    BY <1>1, <1>14 DEF Advance, Blocking, RawCalls, IsoCalls
  <2>2. CASE pc \in {"query", "pollDid"}
    BY <2>1, <2>2 DEF SilentStreak, FastItem, SilentItem
  <2>3. CASE pc = "idle"
    <3>1. SUFFICES ASSUME up = {}, discovered, NEW i \in 1 .. Len(poller.items), FastItem(i)
                   PROVE  /\ poller.items[i].due <= since + Silent(poller.unanswered)
                          /\ now' <= since + Silent(poller.unanswered) + MaxLag
      BY <2>1, <2>3 DEF SilentStreak, FastItem, SilentItem
    <3>2. /\ poller.items[i].due <= since + Silent(poller.unanswered)
          /\ poller.items[i].due \in Nat
      BY <3>1, FastDue DEF SilentStreak, SilentItem
    <3>3. wakeBy <= poller.items[i].due
      BY <2>3 DEF DueInv
    <3>4. since + Silent(poller.unanswered) \in Nat /\ now' \in Nat
      BY <1>1, <1>2, <2>1
    <3>5. wakeBy <= since + Silent(poller.unanswered)
      BY <1>1, <3>2, <3>3, <3>4, NoLater, Zenon
    <3>6. now' <= since + Silent(poller.unanswered) + MaxLag
      BY <1>1, <2>1, <3>4, <3>5, LagLater, Zenon
    <3> QED
      BY <3>2, <3>6, Zenon
  <2>4. CASE pc \notin {"query", "pollDid", "idle"}
    BY <1>0, <1>3, <2>1, <2>4 DEF ThreadInv, Blocking, RawCalls, IsoCalls
  <2> QED
    BY <2>2, <2>3, <2>4
<1>15. ASSUME NEW kind \in Records, BmsReplies(kind)
       PROVE  SilentStreak'
  BY <1>5, <1>15 DEF BmsReplies
<1>16. ASSUME NEW lit \in SUBSET Lamps, Broadcast(lit)
       PROVE  SilentStreak'
  BY <1>5, <1>16 DEF Broadcast
<1>17. ASSUME NEW ecus \in Movers, Moves(ecus)
       PROVE  SilentStreak'
  <2>1. UNCHANGED <<now, pc, wakeBy, poller, discovered>> /\ since' = now
    BY <1>17 DEF Moves
  <2>2. SUFFICES ASSUME NEW i \in 1 .. Len(poller.items), FastItem(i)
                 PROVE  /\ poller.items[i].due <= now + Silent(poller.unanswered)
                        /\ pc \in {"query", "pollDid"}
                              => wakeBy <= now + Silent(poller.unanswered)
                        /\ now <= now + Silent(poller.unanswered) + MaxLag
    BY <2>1 DEF SilentStreak, FastItem, SilentItem
  <2>3. poller.items[i].due \in Nat /\ poller.items[i].due <= now + Fast
    BY <2>2, FastDue
  <2>4. pc \in {"query", "pollDid"} => wakeBy <= now + Fast
    BY <1>0 DEF CallInv
  <2>5. poller.items[i].due <= now + Silent(poller.unanswered)
    <3>1. Fast <= Silent(poller.unanswered)
      BY <1>1, <1>2
    <3> QED
      BY <1>1, <1>2, <2>3, <3>1, LongerStill, Zenon
  <2>6. pc \in {"query", "pollDid"} => wakeBy <= now + Silent(poller.unanswered)
    BY <1>1, <1>2, <2>4
  <2>7. now <= now + Silent(poller.unanswered) + MaxLag
    BY <1>1, <1>2
  <2> QED
    BY <2>5, <2>6, <2>7
<1>18. CASE UNCHANGED vars
  BY <1>5, <1>18
<1>19. CASE DiscoverNextBlock
  BY <1>0, <1>3, <1>19, NextBlockFacts DEF ThreadInv
<1> QED
  BY <1>6, <1>7, <1>8, <1>9, <1>10, <1>11, <1>12, <1>13, <1>14, <1>15, <1>16, <1>17,
     <1>18, <1>19, Steps

\* Inv: the types, and two ECUs that fall silent are reported gone after eight polls
\* (run() of EmuPlugin.cpp, Poller::unanswered), also when they leave after a later block
\* of the discovery was asked for (J1979Client::discover) or during its probes.
THEOREM Invariance == Spec => []Inv
<1>1. Init => DueInv /\ StreakInv /\ GoneInv /\ SilentStreak
  <2>1. Init => pc = "top" /\ discovered = FALSE /\ Len(rx) = 0
    BY DEF Init
  <2> QED
    BY <2>1 DEF DueInv, StreakInv, GoneInv, SilentStreak
<1>2. StateInv /\ DueInv /\ StreakInv /\ GoneInv /\ SilentStreak /\ [Next]_vars
         => DueInv' /\ StreakInv' /\ GoneInv' /\ SilentStreak'
  BY DueStep, StreakStep, GoneStep, SilentStep
<1>3. StateInv /\ StreakInv /\ SilentStreak => LossReported
  <2> SUFFICES ASSUME StateInv, StreakInv, SilentStreak, up = {}, link = "up",
                      {"SPEED", "DRIVE"} \cap PidsOf(poller) # {}
               PROVE  now <= since + Max({Fast, 2 * DiscoverTimeout}) + 8 * Fast + 11 * MaxLag
    BY DEF LossReported
  <2> DEFINE u == poller.unanswered
  <2>1. /\ discovered /\ now \in Nat /\ since \in Nat /\ wakeBy \in Nat
        /\ pc \in {"query", "pollDid"} => now <= wakeBy + MaxLag
        /\ PollerOk(poller, Keys)
    BY DEF StateInv, ThreadInv, ClockInv, CallInv, ItemsInv, Blocking, RawCalls, IsoCalls
  <2>2. PICK i \in 1 .. Len(poller.items) : FastItem(i)
    BY <2>1, ItemFacts DEF PidsOf, FastItem
  <2>3. u \in Nat /\ u <= 8
    BY <2>1, ItemFacts DEF StreakInv
  <2>4. SilentItem(i)
    BY <2>1, <2>2 DEF SilentStreak
  <2>5. /\ Silent(u) \in Nat /\ Silent(u) <= Base + 8 * Fast + 8 * MaxLag
        /\ Base \in Nat /\ Base = Max({Fast, 2 * DiscoverTimeout}) + 2 * MaxLag
    BY <2>3, SilentFacts
  <2>6. now <= since + Silent(u) + MaxLag
    <3>1. CASE pc \in {"query", "pollDid"}
      <4>1. wakeBy <= since + Silent(u) /\ now <= wakeBy + MaxLag
        BY <2>1, <2>4, <3>1 DEF SilentItem
      <4> HIDE DEF u
      <4> QED
        BY <2>1, <2>5, <4>1, Durations
    <3>2. CASE pc \notin {"query", "pollDid"}
      BY <2>4, <3>2 DEF SilentItem
    <3> QED
      BY <3>1, <3>2
  <2> DEFINE m == Max({Fast, 2 * DiscoverTimeout})
  <2>7. m \in Int
    <3>1. Fast \in Int /\ 2 * DiscoverTimeout \in Int
      BY Durations
    <3> QED
      BY <3>1, MinMaxOfTwo
  <2> HIDE DEF u, m
  <2>8. Base = m + 2 * MaxLag
    BY <2>5 DEF m
  <2>9. now <= since + m + 8 * Fast + 11 * MaxLag
    BY <2>1, <2>5, <2>6, <2>7, <2>8, Durations
  <2> QED
    BY <2>9 DEF m
<1> QED
  BY StateInvariance, TypeCorrect, <1>1, <1>2, <1>3, PTL DEF Spec, Inv
-----------------------------------------------------------------------------
(***************************************************************************)
(* The round robin: between two polls of the speed each other PID or DID   *)
(* is polled at most once.                                                 *)
(***************************************************************************)

\* Item i was last asked for when the speed was, or later.
SinceItem(i) ==
    /\ poller.items[i].due > 0
    /\ poller.items[i].due - poller.items[i].interval >= poller.items[1].due - Fast

\* The PIDs and DIDs that were, and the DIDs among them.
Others == {poller.items[i].pid : i \in {i \in 2 .. Len(poller.items) : SinceItem(i)}}
PolledDids == Others \cap Dids

\* The speed is the first item, and polled first after a discovery.
FirstInv ==
    "SPEED" \in Blocks[1] /\ discovered =>
       /\ Len(poller.items) >= 1 /\ poller.items[1].pid = "SPEED"
       /\ poller.items[1].due = 0
             => pc = "poll" /\ \A i \in 1 .. Len(poller.items) : poller.items[i].due = 0
       /\ pc \in {"query", "pollDid"} /\ current # "SPEED" => current \in Others

\* The facts of the first item and of another one.
LEMMA FirstFacts ==
    ASSUME StateInv, FirstInv, "SPEED" \in Blocks[1], discovered
    PROVE  /\ 1 \in 1 .. Len(poller.items) /\ Len(poller.items) \in Nat
           /\ poller.items[1].pid = "SPEED" /\ poller.items[1].interval = Fast
           /\ poller.items[1].due \in Nat /\ poller.items[1].due <= now + Fast
           /\ \A i \in 2 .. Len(poller.items) :
                 /\ i \in 1 .. Len(poller.items) /\ i # 1
                 /\ poller.items[i].pid # "SPEED" /\ poller.items[i].due \in Nat
                 /\ poller.items[i].interval \in Nat /\ poller.items[i].interval >= Fast
                 /\ SinceItem(i) => poller.items[i].due >= poller.items[1].due
<1>1. PollerOk(poller, Keys) /\ Len(poller.items) \in Nat /\ now \in Nat
  BY ItemFacts DEF StateInv, ItemsInv, ClockInv
<1>2. Len(poller.items) >= 1 /\ poller.items[1].pid = "SPEED"
  BY DEF FirstInv
<1>3. 1 \in 1 .. Len(poller.items)
        /\ \A i \in 2 .. Len(poller.items) : i \in 1 .. Len(poller.items) /\ i # 1
  BY <1>1, <1>2
<1>4. \A i \in 1 .. Len(poller.items) :
         /\ poller.items[i].due \in Nat /\ poller.items[i].interval \in Nat
         /\ poller.items[i].pid \in Keys
         /\ poller.items[i].interval = interval(poller.items[i].pid)
         /\ poller.items[i].due <= now + poller.items[i].interval
  BY <1>1, ItemFacts DEF StateInv, ItemsInv
<1>5. poller.items[1].interval = Fast /\ poller.items[1].due <= now + Fast
  BY <1>2, <1>3, <1>4, Intervals
<1>6. ASSUME NEW i \in 2 .. Len(poller.items)
      PROVE  /\ poller.items[i].pid # "SPEED"
             /\ poller.items[i].interval >= Fast
             /\ SinceItem(i) => poller.items[i].due >= poller.items[1].due
  <2>1. i \in 1 .. Len(poller.items) /\ i # 1
    BY <1>3
  <2>2. poller.items[i].pid # "SPEED"
    BY <1>1, <1>2, <1>3, <2>1 DEF PollerOk
  <2>3. poller.items[i].interval >= Fast
    BY <1>4, <2>1, Intervals
  <2> DEFINE d == poller.items[i].due
             v == poller.items[i].interval
             s == poller.items[1].due
  <2>4. d \in Nat /\ v \in Nat /\ s \in Nat /\ v >= Fast
        /\ (SinceItem(i) => d - v >= s - Fast)
    BY <1>3, <1>4, <2>1, <2>3 DEF SinceItem
  <2> HIDE DEF d, v, s
  <2>5. SinceItem(i) => d >= s
    BY <2>4, Durations
  <2> QED
    BY <2>2, <2>3, <2>5 DEF d, s
<1> QED
  BY <1>1, <1>2, <1>3, <1>4, <1>5, <1>6

\* The sets are finite, and smaller than what is polled.
LEMMA OthersFacts ==
    ASSUME StateInv, FirstInv, "SPEED" \in Blocks[1], discovered
    PROVE  /\ IsFiniteSet(Others) /\ Cardinality(Others) \in Nat
           /\ Cardinality(Others) <= Len(poller.items) - 1
           /\ IsFiniteSet(PolledDids) /\ Cardinality(PolledDids) \in Nat
           /\ Cardinality(PolledDids) <= 4
<1> DEFINE n == Len(poller.items)
           S == {i \in 2 .. n : SinceItem(i)}
           f == [i \in S |-> poller.items[i].pid]
<1>1. n \in Nat /\ n >= 1
  BY FirstFacts
<1>2. IsFiniteSet(2 .. n) /\ Cardinality(2 .. n) = IF 2 > n THEN 0 ELSE n - 2 + 1
  BY <1>1, FS_Interval, SMTT(30)
<1>3. Cardinality(2 .. n) <= n - 1
  BY <1>1, <1>2
<1>4. S \in SUBSET (2 .. n)
  OBVIOUS
<1>5. f \in Surjection(S, Others)
  BY DEF Others, Surjection
<1> HIDE DEF n, S, f
<1>6. IsFiniteSet(S) /\ Cardinality(S) <= Cardinality(2 .. n)
  BY <1>2, <1>4, FS_Subset
<1>7. IsFiniteSet(Others) /\ Cardinality(Others) <= Cardinality(S)
  BY <1>5, <1>6, FS_Surjection
<1>8. /\ Cardinality(Others) \in Nat /\ Cardinality(S) \in Nat
      /\ Cardinality(2 .. n) \in Nat
  BY <1>2, <1>6, <1>7, FS_CardinalityType
<1>9. Cardinality(Others) <= n - 1
  BY <1>1, <1>3, <1>6, <1>7, <1>8
<1>10. IsFiniteSet(Dids) /\ Cardinality(Dids) <= 4
  <2>1. IsFiniteSet({}) /\ Cardinality({}) = 0
    BY FS_EmptySet
  <2>2. IsFiniteSet({} \cup {"PACK"}) /\ Cardinality({} \cup {"PACK"}) <= 1
    BY <2>1, FS_AddElement
  <2> DEFINE a == {} \cup {"PACK"}
             b == a \cup {"RANGE"}
             c == b \cup {"DRIVE"}
             d == c \cup {"ASSIST"}
  <2>3. d = Dids
    BY DEF Dids
  <2> HIDE DEF a, b, c, d
  <2>4. IsFiniteSet(a) /\ Cardinality(a) \in Nat /\ Cardinality(a) <= 1
    BY <2>2, FS_CardinalityType DEF a
  <2>5. IsFiniteSet(b) /\ Cardinality(b) \in Nat /\ Cardinality(b) <= 2
    <3>1. IsFiniteSet(b) /\ (Cardinality(b) = Cardinality(a) \/ Cardinality(b) = Cardinality(a) + 1)
      BY <2>4, FS_AddElement DEF b
    <3> QED
      BY <2>4, <3>1
  <2>6. IsFiniteSet(c) /\ Cardinality(c) \in Nat /\ Cardinality(c) <= 3
    <3>1. IsFiniteSet(c) /\ (Cardinality(c) = Cardinality(b) \/ Cardinality(c) = Cardinality(b) + 1)
      BY <2>5, FS_AddElement DEF c
    <3> QED
      BY <2>5, <3>1
  <2>7. IsFiniteSet(d) /\ (Cardinality(d) = Cardinality(c) \/ Cardinality(d) = Cardinality(c) + 1)
    BY <2>6, FS_AddElement DEF d
  <2>8. Cardinality(d) <= 4
    BY <2>6, <2>7
  <2> QED
    BY <2>3, <2>7, <2>8
<1>11. PolledDids \in SUBSET Dids
  BY DEF PolledDids
<1>12. IsFiniteSet(PolledDids) /\ Cardinality(PolledDids) <= Cardinality(Dids)
  BY <1>10, <1>11, FS_Subset
<1>13. Cardinality(PolledDids) \in Nat /\ Cardinality(Dids) \in Nat
  BY <1>10, <1>12, FS_CardinalityType
<1>14. Cardinality(PolledDids) <= 4
  BY <1>10, <1>12, <1>13
<1> QED
  BY <1>7, <1>8, <1>9, <1>12, <1>13, <1>14 DEF n

\* The same deadlines, the same sets.
LEMMA OthersSame ==
    ASSUME Len(poller'.items) = Len(poller.items), 1 \in 1 .. Len(poller.items),
           \A i \in 1 .. Len(poller.items) :
              /\ poller'.items[i].pid = poller.items[i].pid
              /\ poller'.items[i].interval = poller.items[i].interval
              /\ poller'.items[i].due = poller.items[i].due,
           \A i \in 2 .. Len(poller.items) : i \in 1 .. Len(poller.items)
    PROVE  Others' = Others /\ PolledDids' = PolledDids
<1>1. \A i \in 2 .. Len(poller.items) : SinceItem(i)' <=> SinceItem(i)
  BY DEF SinceItem
<1>2. {i \in 2 .. Len(poller.items) : SinceItem(i)'}
         = {i \in 2 .. Len(poller.items) : SinceItem(i)}
  BY <1>1
<1>3. Others' = Others
  BY <1>2, SMTT(30) DEF Others
<1> QED
  BY <1>3 DEF PolledDids

\* A poll is of the speed, or of a PID or DID that was not asked for since: it is due
\* before the speed.
LEMMA PickedFacts ==
    ASSUME StateInv, DueInv, FirstInv, "SPEED" \in Blocks[1], PollRequest
    PROVE  /\ Len(poller'.items) = Len(poller.items) /\ poller'.items[1].pid = "SPEED"
           /\ \/ /\ current' = "SPEED" /\ poller'.items[1].due = loopNow + Fast
                 /\ loopNow \in Nat
              \/ /\ current' # "SPEED" /\ loopNow = now /\ poller.items[1].due > 0
                 /\ \E k \in 2 .. Len(poller.items) :
                       /\ poller.items[k].pid = current'
                       /\ poller.items[k].due < poller.items[1].due
                 /\ poller'.items[1].due = poller.items[1].due
                 /\ current' \notin Others /\ Others' = Others \cup {current'}
<1>0. /\ HeardWaits /\ ItemsInv /\ ClockInv /\ PollerOk(poller, Keys)
      /\ loopNow \in Nat /\ now \in Nat /\ loopNow <= now
      /\ pc = "poll" /\ DueItems(poller, loopNow) # {} /\ discovered
      /\ current' = nextDue(poller, loopNow)
  BY RequestsFacts DEF StateInv, ThreadInv, ItemsInv, ClockInv
<1> DEFINE s == poller.items[1].due
<1>1. /\ 1 \in 1 .. Len(poller.items) /\ Len(poller.items) \in Nat
      /\ poller.items[1].pid = "SPEED" /\ poller.items[1].interval = Fast
      /\ s \in Nat /\ s <= now + Fast
  BY <1>0, FirstFacts
<1>2. PICK k \in 1 .. Len(poller.items) :
         /\ poller.items[k].pid = current' /\ Len(poller'.items) = Len(poller.items)
         /\ \A i \in 1 .. Len(poller.items) :
               /\ poller'.items[i].pid = poller.items[i].pid
               /\ poller'.items[i].interval = poller.items[i].interval
               /\ poller'.items[i].due = IF i = k THEN loopNow + poller.items[k].interval
                                         ELSE poller.items[i].due
  BY <1>0, RequestedItems
<1>3. Len(poller'.items) = Len(poller.items) /\ poller'.items[1].pid = "SPEED"
  BY <1>1, <1>2
<1>4. CASE k = 1
  <2>1. current' = "SPEED" /\ poller'.items[1].due = loopNow + Fast
    BY <1>1, <1>2, <1>4
  <2> QED
    BY <1>0, <1>3, <2>1
<1>5. CASE k # 1
  <2>1. k \in 2 .. Len(poller.items)
    BY <1>1, <1>5
  <2>2. current' # "SPEED"
    BY <1>0, <1>2, <2>1, FirstFacts
  <2>3. \A i \in 1 .. Len(poller.items) :
           poller.items[1].interval <= poller.items[i].interval
    <3>1. \A i \in 1 .. Len(poller.items) : i = 1 \/ i \in 2 .. Len(poller.items)
      BY <1>1
    <3> QED
      BY <1>0, <1>1, <3>1, FirstFacts, Durations
  <2>4. poller.items[k].due < s
    BY <1>0, <1>2, <1>5, <2>3, FirstGoesFirst
  <2>5. /\ poller.items[k].due \in Nat /\ poller.items[k].interval \in Nat
        /\ poller.items[k].interval >= Fast
        /\ SinceItem(k) => poller.items[k].due >= s
    BY <1>0, <2>1, FirstFacts
  <2>6. s > 0 /\ ~SinceItem(k)
    BY <1>1, <2>4, <2>5
  <2>7. loopNow = now
    BY <1>0, <1>1, <2>6 DEF DueInv
  <2>8. poller'.items[1].due = s
    BY <1>1, <1>2, <1>5
  <2>9. SinceItem(k)'
    <3> DEFINE v == poller.items[k].interval
               d == poller'.items[k].due
               w == poller'.items[k].interval
               t == poller'.items[1].due
    <3>1. d = now + v /\ w = v /\ t = s
      BY <1>2, <2>7, <2>8
    <3>2. v \in Nat /\ v > 0 /\ s \in Nat /\ now \in Nat /\ s <= now + Fast
      BY <1>0, <1>1, <2>5, Durations
    <3> SUFFICES d > 0 /\ d - w >= t - Fast
      BY DEF SinceItem
    <3> HIDE DEF v, d, w, t, s
    <3> QED
      BY <3>1, <3>2, Durations
  <2>10. \A i \in 2 .. Len(poller.items) : i # k => (SinceItem(i)' <=> SinceItem(i))
    <3>1. \A i \in 2 .. Len(poller.items) : i \in 1 .. Len(poller.items)
      OBVIOUS
    <3> QED
      BY <1>2, <2>8, <3>1 DEF SinceItem
  <2>11. current' \notin Others
    <3>1. ASSUME NEW i \in 2 .. Len(poller.items), SinceItem(i), poller.items[i].pid = current'
          PROVE  FALSE
      <4>1. i \in 1 .. Len(poller.items)
        OBVIOUS
      <4>2. i = k
        BY <1>0, <1>2, <3>1, <4>1 DEF PollerOk
      <4> QED
        BY <2>6, <3>1, <4>2
    <3> QED
      BY <3>1 DEF Others
  <2>12. Others' = Others \cup {current'}
    <3>1. {i \in 2 .. Len(poller.items) : SinceItem(i)'}
             = {i \in 2 .. Len(poller.items) : SinceItem(i)} \cup {k}
      BY <2>1, <2>9, <2>10
    <3>2. \A i \in 2 .. Len(poller.items) : poller'.items[i].pid = poller.items[i].pid
      BY <1>2
    <3>3. Others' = {poller.items[i].pid :
                        i \in {i \in 2 .. Len(poller.items) : SinceItem(i)} \cup {k}}
      BY <1>2, <3>1, <3>2, SMTT(30) DEF Others
    <3> QED
      BY <1>2, <3>3 DEF Others
  <2> QED
    BY <1>2, <1>3, <2>1, <2>2, <2>4, <2>6, <2>7, <2>8, <2>11, <2>12
<1> QED
  BY <1>4, <1>5


LEMMA FirstStep == StateInv /\ DueInv /\ FirstInv /\ [Next]_vars => FirstInv'
<1> DEFINE Goal == /\ Len(poller'.items) >= 1 /\ poller'.items[1].pid = "SPEED"
                   /\ poller'.items[1].due = 0
                         => /\ pc' = "poll"
                            /\ \A i \in 1 .. Len(poller'.items) : poller'.items[i].due = 0
                   /\ pc' \in {"query", "pollDid"} /\ current' # "SPEED"
                         => current' \in Others'
<1> SUFFICES ASSUME StateInv, DueInv, FirstInv, [Next]_vars, "SPEED" \in Blocks[1], discovered'
             PROVE  Goal
  BY DEF FirstInv
<1>0. HeardWaits /\ ThreadInv /\ ClockInv /\ ItemsInv /\ PolledInv /\ ChainInv
  BY DEF StateInv, ThreadInv
<1>1. ASSUME discovered, UNCHANGED poller, pc = "poll" => pc' = "poll",
             pc' \in {"query", "pollDid"} => UNCHANGED <<pc, current>>
      PROVE  Goal
  BY <1>1 DEF FirstInv, Others, SinceItem
<1>2. CASE Probes
  BY <1>0, <1>2, ProbeFacts DEF ThreadInv
<1>3. CASE DiscoveryEnds
  <2>1. pc' = "poll"
    BY <1>3, DiscoveryFacts
  <2>2. PICK keys : Started(poller', keys) /\ Blocks[1] \cap Pids \subseteq keys
    BY <1>0, <1>3, DiscoveryFirst
  <2>3. "SPEED" \in keys
    BY <2>2, KeyFacts
  <2> QED
    BY <2>1, <2>2, <2>3 DEF Started
<1>4. CASE PollRequest
  <2>1. pc' \in {"query", "pollDid"} /\ discovered /\ now \in Nat
    BY <1>0, <1>4, RequestsFacts DEF AsksEngine, AsksBms, ThreadInv, ClockInv
  <2>2. /\ 1 \in 1 .. Len(poller.items) /\ Len(poller.items) \in Nat
        /\ poller.items[1].due \in Nat
    BY <2>1, FirstFacts
  <2>3. Len(poller'.items) >= 1 /\ poller'.items[1].pid = "SPEED"
    BY <1>4, <2>2, PickedFacts
  <2>4. poller'.items[1].due # 0 /\ (current' # "SPEED" => current' \in Others')
    <3>1. CASE current' = "SPEED"
      <4>1. poller'.items[1].due = loopNow + Fast /\ loopNow \in Nat
        BY <1>4, <3>1, PickedFacts
      <4> QED
        BY <3>1, <4>1, Durations
    <3>2. CASE current' # "SPEED"
      <4>1. /\ poller.items[1].due > 0 /\ poller'.items[1].due = poller.items[1].due
            /\ Others' = Others \cup {current'}
        BY <1>4, <3>2, PickedFacts
      <4> QED
        BY <2>2, <4>1
    <3> QED
      BY <3>1, <3>2
  <2> QED
    BY <2>3, <2>4
<1>5. CASE QueryAnswer \/ QueryFail \/ PollDidReply \/ PollDidFail
  <2>1. pc \in {"query", "pollDid"} /\ pc' \in {"publish", "top"} /\ discovered
    BY <1>0, <1>5, PollEnds DEF ThreadInv
  <2>2. /\ Len(poller'.items) = Len(poller.items)
        /\ \A i \in 1 .. Len(poller.items) :
              /\ poller'.items[i].pid = poller.items[i].pid
              /\ poller'.items[i].due = poller.items[i].due
    BY <1>0, <1>5, EndedItems
  <2>3. 1 \in 1 .. Len(poller.items) /\ Len(poller.items) >= 1
        /\ poller.items[1].pid = "SPEED" /\ poller.items[1].due # 0
    BY <2>1, FirstFacts DEF FirstInv
  <2> QED
    BY <2>1, <2>2, <2>3
<1>6. CASE PollIdle
  <2>1. /\ pc = "poll" /\ pc' = "idle" /\ UNCHANGED <<poller, discovered>>
        /\ DueItems(poller, loopNow) = {} /\ loopNow \in Nat
    BY <1>0, <1>6 DEF PollIdle, ClockInv
  <2>2. 1 \in DOMAIN poller.items /\ poller.items[1].pid = "SPEED"
        /\ Len(poller.items) >= 1 /\ poller.items[1].due \in Nat
    BY <1>0, <2>1, FirstFacts, ItemFacts DEF FirstInv, ItemsInv
  <2>3. poller.items[1].due # 0
    BY <2>1, <2>2 DEF DueItems
  <2> QED
    BY <2>1, <2>2, <2>3
<1>7. CASE LoopTop \/ LoopExit \/ Wake \/ DiscoverFail
  BY <1>1, <1>7 DEF LoopTop, LoopExit, Wake, return, DiscoverFail
<1>8. CASE IdleEnd \/ Publish \/ StopJoined
  BY <1>1, <1>8 DEF IdleEnd, return, Publish, StopJoined
<1>9. CASE onTelltales
  <2>1. /\ UNCHANGED <<discovered, poller>>
        /\ \/ pc = "idle" /\ pc' = "publish"
           \/ UNCHANGED <<pc, current>>
    BY <1>0, <1>9, TelltalesFacts
  <2> QED
    BY <1>1, <2>1
<1>10. CASE Stop \/ Advance
  BY <1>1, <1>10 DEF Stop, Advance
<1>11. ASSUME NEW kind \in Records, BmsReplies(kind)
       PROVE  UNCHANGED <<discovered, poller, pc, current>>
  BY <1>11 DEF BmsReplies
<1>12. ASSUME NEW lit \in SUBSET Lamps, Broadcast(lit)
       PROVE  UNCHANGED <<discovered, poller, pc, current>>
  BY <1>12 DEF Broadcast
<1>13. ASSUME NEW ecus \in Movers, Moves(ecus)
       PROVE  UNCHANGED <<discovered, poller, pc, current>>
  BY <1>13 DEF Moves
<1>14. CASE UNCHANGED vars
  BY <1>1, <1>14
<1>15. CASE DiscoverNextBlock
  BY <1>0, <1>15, NextBlockFacts DEF ThreadInv
<1> HIDE DEF Goal
<1> QED
  BY <1>1, <1>2, <1>3, <1>4, <1>5, <1>6, <1>7, <1>8, <1>9, <1>10, <1>11, <1>12, <1>13,
     <1>14, <1>15, Steps
-----------------------------------------------------------------------------
(***************************************************************************)
(* A silent battery ECU does not take the link down.                       *)
(***************************************************************************)

\* The engine ECU stays, the bus works, and the speed is polled.
EngineHolds == "obd" \in up \ UNION Movers /\ ~Lossy /\ "SPEED" \in Blocks[1]

\* The unanswered polls of the streak are of different DIDs.
LinkInv ==
    EngineHolds =>
       /\ pc \in {"discover", "query"} => heard
       /\ discovered /\ pc # "query" => poller.unanswered <= Cardinality(PolledDids)

\* The deadlines stay when a poll ends.
LEMMA EndedOthers ==
    ASSUME StateInv, FirstInv, "SPEED" \in Blocks[1],
           QueryAnswer \/ QueryFail \/ PollDidReply \/ PollDidFail
    PROVE  /\ discovered /\ Others' = Others /\ PolledDids' = PolledDids
           /\ Len(poller'.items) = Len(poller.items)
           /\ \A i \in 1 .. Len(poller.items) : poller'.items[i].due = poller.items[i].due
<1>1. ItemsInv /\ ClockInv /\ discovered
  BY PollEnds DEF StateInv, ThreadInv
<1>2. /\ 1 \in 1 .. Len(poller.items)
      /\ \A i \in 2 .. Len(poller.items) : i \in 1 .. Len(poller.items)
  BY <1>1, FirstFacts
<1>3. /\ Len(poller'.items) = Len(poller.items)
      /\ \A i \in 1 .. Len(poller.items) :
            /\ poller'.items[i].pid = poller.items[i].pid
            /\ poller'.items[i].interval = poller.items[i].interval
            /\ poller'.items[i].due = poller.items[i].due
  BY <1>1, EndedItems
<1>4. Others' = Others /\ PolledDids' = PolledDids
  BY <1>2, <1>3, OthersSame
<1> QED
  BY <1>1, <1>3, <1>4

\* Nothing was asked for since a discovery.
LEMMA StartedOthers ==
    ASSUME NEW keys, Started(poller', keys)
    PROVE  Others' = {} /\ PolledDids' = {}
<1>1. Len(poller'.items) \in Nat /\ \A i \in 1 .. Len(poller'.items) : poller'.items[i].due = 0
  BY ItemFacts DEF Started
<1>2. \A i \in 2 .. Len(poller'.items) : ~SinceItem(i)'
  BY <1>1 DEF SinceItem
<1>3. Others' = {}
  BY <1>2 DEF Others
<1> QED
  BY <1>3 DEF PolledDids

\* The engine ECU that has a request answers it.
LEMMA EngineAnswers ==
    ASSUME StateInv, LinkInv, EngineHolds
    PROVE  ~QueryFail /\ ~DiscoverFail
<1>1. ~Lossy /\ (pc \in {"discover", "query"} => heard)
  BY DEF LinkInv, EngineHolds
<1> QED
  BY <1>1 DEF QueryFail, DiscoverFail

\* The ECU that stays was there before.
LEMMA EngineHeld ==
    ASSUME StateInv, [Next]_vars, EngineHolds'
    PROVE  EngineHolds
<1>0. HeardWaits /\ up \subseteq Ecus /\ (owed # <<>> => "bms" \in up)
  BY DEF StateInv, ThreadInv, IsoInv
<1>1. CASE \E ecus \in Movers : Moves(ecus)
  <2>1. PICK ecus \in Movers : Moves(ecus)
    BY <1>1
  <2>2. "obd" \notin UNION Movers /\ "obd" \in up'
    BY DEF EngineHolds
  <2>3. "obd" \in up
    BY <1>0, <2>1, <2>2, MovesFacts
  <2> QED
    BY <2>2, <2>3 DEF EngineHolds
<1>2. CASE UNCHANGED up
  BY <1>2 DEF EngineHolds
<1>3. CASE Probes
  BY <1>0, <1>2, <1>3, ProbeFacts
<1>4. CASE DiscoveryEnds
  BY <1>2, <1>4, DiscoveryFacts
<1>5. CASE PollRequest
  BY <1>0, <1>2, <1>5, RequestsFacts
<1>6. CASE QueryAnswer \/ QueryFail \/ PollDidReply \/ PollDidFail
  BY <1>2, <1>6, PollEnds
<1>7. CASE LoopTop \/ LoopExit \/ Wake \/ DiscoverFail
  BY <1>2, <1>7 DEF LoopTop, LoopExit, Wake, DiscoverFail
<1>8. CASE PollIdle \/ IdleEnd \/ Publish \/ StopJoined
  BY <1>2, <1>8 DEF PollIdle, IdleEnd, Publish, StopJoined
<1>9. CASE onTelltales \/ Stop \/ Advance
  BY <1>2, <1>9 DEF onTelltales, Stop, Advance
<1>10. ASSUME NEW kind \in Records, BmsReplies(kind)
       PROVE  UNCHANGED up
  BY <1>10 DEF BmsReplies
<1>11. ASSUME NEW lit \in SUBSET Lamps, Broadcast(lit)
       PROVE  UNCHANGED up
  BY <1>11 DEF Broadcast
<1>12. CASE DiscoverNextBlock
  BY <1>2, <1>12, NextBlockFacts
<1> QED
  BY <1>1, <1>2, <1>3, <1>4, <1>5, <1>6, <1>7, <1>8, <1>9, <1>10, <1>11, <1>12, Steps

LEMMA LinkStep == StateInv /\ DueInv /\ FirstInv /\ LinkInv /\ [Next]_vars => LinkInv'
<1> SUFFICES ASSUME StateInv, DueInv, FirstInv, LinkInv, [Next]_vars, EngineHolds'
             PROVE  /\ pc' \in {"discover", "query"} => heard'
                    /\ discovered' /\ pc' # "query"
                          => poller'.unanswered <= Cardinality(PolledDids')
  BY DEF LinkInv
<1>0. /\ HeardWaits /\ ThreadInv /\ ClockInv /\ ItemsInv /\ PolledInv
      /\ EngineHolds /\ "obd" \in up /\ ~Lossy /\ "SPEED" \in Blocks[1]
      /\ "obd" \notin UNION Movers /\ up \subseteq Ecus /\ (owed # <<>> => "bms" \in up)
  BY EngineHeld DEF StateInv, ThreadInv, EngineHolds, IsoInv
<1>1. ASSUME discovered' => discovered, UNCHANGED poller,
             pc' \in {"discover", "query"} => UNCHANGED <<pc, heard>>,
             pc = "query" => pc' = "query"
      PROVE  /\ pc' \in {"discover", "query"} => heard'
             /\ discovered' /\ pc' # "query"
                   => poller'.unanswered <= Cardinality(PolledDids')
  BY <1>0, <1>1 DEF LinkInv, PolledDids, Others, SinceItem
<1>2. CASE Probes
  BY <1>0, <1>2, ProbeFacts DEF ThreadInv
<1>3. CASE DiscoveryEnds
  <2>1. pc' = "poll"
    BY <1>3, DiscoveryFacts
  <2>2. PICK keys : Started(poller', keys)
    BY <1>0, <1>3, DiscoveryStarts
  <2>3. PolledDids' = {}
    BY <2>2, StartedOthers
  <2>4. poller'.unanswered = 0 /\ Cardinality(PolledDids') = 0
    BY <2>2, <2>3, FS_EmptySet DEF Started
  <2> QED
    BY <2>1, <2>4
<1>4. CASE PollRequest
  <2>1. pc = "poll" /\ discovered
    BY <1>0, <1>4, RequestsFacts DEF ThreadInv
  <2>2. CASE AsksEngine
    BY <1>0, <2>2 DEF AsksEngine
  <2>3. CASE AsksBms
    <3>1. pc' = "pollDid" /\ current' \in Dids /\ current' # "SPEED"
      BY <2>3, KeyFacts DEF AsksBms
    <3>2. current' \notin Others /\ Others' = Others \cup {current'}
      BY <1>0, <1>4, <3>1, PickedFacts
    <3>3. current' \notin PolledDids /\ PolledDids' = PolledDids \cup {current'}
      BY <3>1, <3>2 DEF PolledDids
    <3>4. IsFiniteSet(PolledDids) /\ Cardinality(PolledDids) \in Nat
      BY <1>0, <2>1, OthersFacts
    <3>5. Cardinality(PolledDids') = Cardinality(PolledDids) + 1
      BY <3>3, <3>4, FS_AddElement
    <3>6. poller'.unanswered = poller.unanswered + 1 /\ poller.unanswered \in Nat
      BY <1>0, <1>4, RequestedItems, ItemFacts DEF ItemsInv
    <3>7. poller.unanswered <= Cardinality(PolledDids)
      BY <1>0, <2>1 DEF LinkInv
    <3>8. poller'.unanswered <= Cardinality(PolledDids')
      BY <3>4, <3>5, <3>6, <3>7
    <3> QED
      BY <3>1, <3>8
  <2> QED
    BY <1>0, <1>4, <2>2, <2>3, RequestsFacts
<1>5. CASE QueryAnswer \/ QueryFail \/ PollDidReply \/ PollDidFail
  <2>1. pc \in {"query", "pollDid"} /\ pc' \in {"publish", "top"} /\ discovered
    BY <1>0, <1>5, PollEnds DEF ThreadInv
  <2>2. PolledDids' = PolledDids /\ Cardinality(PolledDids) \in Nat
    BY <1>0, <1>5, <2>1, EndedOthers, OthersFacts
  <2>3. CASE poller' = markAnswered(poller, current, now)
    <3>1. current \in PidsOf(poller)
      BY <1>0, <2>1 DEF ItemsInv
    <3>2. poller'.unanswered = 0
      BY <1>0, <2>3, <3>1, AnsweredItems
    <3> QED
      BY <2>1, <2>2, <3>2
  <2>4. CASE poller' = poller /\ ~QueryAnswer
    <3>1. pc # "query"
      <4>1. ~QueryFail
        BY <1>0, EngineAnswers
      <4> QED
        BY <1>5, <2>4, <4>1 DEF PollDidReply, PollDidFail
    <3>2. poller.unanswered <= Cardinality(PolledDids)
      BY <1>0, <2>1, <3>1 DEF LinkInv
    <3> QED
      BY <2>1, <2>2, <2>4, <3>2
  <2>5. QueryAnswer => poller' = markAnswered(poller, current, now)
    BY DEF QueryAnswer, Answered
  <2> QED
    BY <1>5, <2>3, <2>4, <2>5, PollEnds
<1>6. CASE LoopTop
  <2>1. CASE discovered
    BY <1>0, <1>1, <1>6, <2>1 DEF LoopTop
  <2>2. CASE ~discovered
    <3>1. pc' = "discover" /\ request(DiscoverTimeout) /\ ~discovered'
      BY <1>6, <2>2 DEF LoopTop
    <3>2. heard'
      BY <1>0, <3>1, RequestFacts
    <3> QED
      BY <3>1, <3>2
  <2> QED
    BY <2>1, <2>2
<1>7. CASE LoopExit \/ Wake \/ PollIdle
  BY <1>1, <1>7 DEF LoopExit, Wake, return, PollIdle
<1>8. CASE DiscoverFail
  BY <1>0, <1>8, EngineAnswers
<1>9. CASE IdleEnd \/ Publish \/ StopJoined
  BY <1>1, <1>9 DEF IdleEnd, return, Publish, StopJoined
<1>10. CASE onTelltales
  <2>1. /\ UNCHANGED <<discovered, poller>>
        /\ \/ pc = "idle" /\ pc' = "publish"
           \/ pc' = pc /\ (heard' <=> heard)
    BY <1>0, <1>10, TelltalesFacts
  <2>2. CASE pc = "idle" /\ pc' = "publish"
    BY <1>1, <2>1, <2>2
  <2>3. CASE pc' = pc /\ (heard' <=> heard)
    BY <1>0, <2>1, <2>3 DEF LinkInv, PolledDids, Others, SinceItem
  <2> QED
    BY <2>1, <2>2, <2>3
<1>11. CASE Stop \/ Advance
  BY <1>1, <1>11 DEF Stop, Advance
<1>12. ASSUME NEW kind \in Records, BmsReplies(kind)
       PROVE  UNCHANGED <<discovered, poller, pc, heard>>
  BY <1>12 DEF BmsReplies
<1>13. ASSUME NEW lit \in SUBSET Lamps, Broadcast(lit)
       PROVE  UNCHANGED <<discovered, poller, pc, heard>>
  BY <1>13 DEF Broadcast
<1>14. ASSUME NEW ecus \in Movers, Moves(ecus)
       PROVE  UNCHANGED <<discovered, poller, pc, heard>>
  BY <1>0, <1>14, MovesFacts
<1>15. CASE UNCHANGED vars
  BY <1>1, <1>15
<1>16. CASE DiscoverNextBlock
  BY <1>0, <1>16, NextBlockFacts DEF ThreadInv
<1> QED
  BY <1>1, <1>2, <1>3, <1>4, <1>5, <1>6, <1>7, <1>8, <1>9, <1>10, <1>11, <1>12, <1>13,
     <1>14, <1>15, <1>16, Steps


\* The deadlines and the streak, and what a poll of the speed does to them.
LEMMA RobinInvariance == Spec => [](DueInv /\ FirstInv /\ LinkInv)
<1> DEFINE Robin == DueInv /\ FirstInv /\ LinkInv
<1>1. Init => Robin
  <2> SUFFICES ASSUME Init
               PROVE  Robin
    OBVIOUS
  <2>1. pc = "top" /\ ~discovered
    BY DEF Init
  <2> QED
    BY <2>1 DEF DueInv, FirstInv, LinkInv
<1>2. StateInv /\ Robin /\ [Next]_vars => Robin'
  BY DueStep, FirstStep, LinkStep
<1> HIDE DEF Robin
<1>3. Spec => []Robin
  BY StateInvariance, <1>1, <1>2, PTL DEF Spec
<1> QED
  BY <1>3 DEF Robin

\* LinkHolds: a battery ECU that is silent or late never takes the link down while the
\* engine ECU answers, whatever is polled besides the speed.
THEOREM LinkStaysUp == Spec => LinkHolds
<1> DEFINE Step == /\ "obd" \in up \ UNION Movers /\ ~Lossy /\ "SPEED" \in Blocks[1]
                   /\ link = "up"
                   => link' = "up"
<1>1. StateInv /\ FirstInv /\ LinkInv /\ [Next]_vars => Step
  <2> SUFFICES ASSUME StateInv, FirstInv, LinkInv, [Next]_vars, EngineHolds, link = "up"
               PROVE  link' = "up"
    BY DEF EngineHolds
  <2>0. /\ HeardWaits /\ ThreadInv /\ discovered /\ "SPEED" \in Blocks[1]
        /\ up \subseteq Ecus /\ (owed # <<>> => "bms" \in up)
    BY DEF StateInv, ThreadInv, EngineHolds, IsoInv
  <2>1. CASE Probes
    BY <2>0, <2>1, ProbeFacts DEF ThreadInv
  <2>2. CASE DiscoveryEnds
    BY <2>2, DiscoveryFacts
  <2>3. CASE PollRequest
    BY <2>0, <2>3, RequestsFacts
  <2>4. CASE QueryAnswer \/ QueryFail \/ PollDidReply \/ PollDidFail
    <3>1. pc \in {"query", "pollDid"}
      BY <2>4, PollEnds
    <3>2. CASE UNCHANGED link
      BY <3>2
    <3>3. CASE poller.unanswered >= 8 /\ pc' = "top"
      <4>1. pc # "query"
        <5>1. ~QueryFail
          BY EngineAnswers
        <5>2. ~QueryAnswer
          BY <3>3 DEF QueryAnswer, Answered, return
        <5> QED
          BY <2>4, <5>1, <5>2 DEF PollDidReply, PollDidFail
      <4>2. poller.unanswered <= Cardinality(PolledDids)
        BY <2>0, <4>1 DEF LinkInv
      <4>3. Cardinality(PolledDids) \in Nat /\ Cardinality(PolledDids) <= 4
        BY <2>0, OthersFacts
      <4>4. poller.unanswered \in Nat
        BY ItemFacts DEF StateInv, ItemsInv
      <4> QED
        BY <3>3, <4>2, <4>3, <4>4
    <3> QED
      BY <2>4, <3>2, <3>3, PollEnds
  <2>5. CASE DiscoverFail
    BY <2>5, EngineAnswers
  <2>6. CASE LoopTop \/ LoopExit \/ Wake \/ PollIdle
    BY <2>6 DEF LoopTop, LoopExit, Wake, PollIdle
  <2>7. CASE IdleEnd \/ Publish \/ StopJoined
    BY <2>7 DEF IdleEnd, Publish, StopJoined
  <2>8. CASE onTelltales \/ Stop \/ Advance
    BY <2>8 DEF onTelltales, Stop, Advance
  <2>9. ASSUME NEW kind \in Records, BmsReplies(kind)
        PROVE  UNCHANGED link
    BY <2>9 DEF BmsReplies
  <2>10. ASSUME NEW lit \in SUBSET Lamps, Broadcast(lit)
         PROVE  UNCHANGED link
    BY <2>10 DEF Broadcast
  <2>11. ASSUME NEW ecus \in Movers, Moves(ecus)
         PROVE  UNCHANGED link
    BY <2>11 DEF Moves
  <2>12. CASE UNCHANGED vars
    BY <2>12
  <2>13. CASE DiscoverNextBlock
    BY <2>13, NextBlockFacts
  <2> QED
    BY <2>1, <2>2, <2>3, <2>4, <2>5, <2>6, <2>7, <2>8, <2>9, <2>10, <2>11, <2>12, <2>13, Steps
<1>2. StateInv /\ FirstInv /\ LinkInv /\ [Next]_vars => [Step]_vars
  BY <1>1
<1> HIDE DEF Step
<1>3. Spec => [][Step]_vars
  BY StateInvariance, RobinInvariance, <1>2, PTL DEF Spec
<1> QED
  BY <1>3 DEF Step, LinkHolds
-----------------------------------------------------------------------------
(***************************************************************************)
(* The speed is not starved.                                               *)
(***************************************************************************)

\* When the speed was answered last, and when it is due next.
Seen == values["SPEED"]
SpeedDue == poller.items[1].due

\* The thread comes to poll before the others polled since the speed can have taken
\* longer than their timeouts, or nothing is due before the speed.
InTime ==
    \/ now < Seen + Fast + MaxLag + Lasts(Cardinality(Others))
    \/ /\ now <= SpeedDue + MaxLag
       /\ \A i \in 2 .. Len(poller.items) : poller.items[i].due >= SpeedDue

\* Where the thread is between two answers of the speed.
Round ==
    /\ \/ pc = "query" /\ current = "SPEED"
       \/ SpeedDue > 0 /\ SpeedDue <= Seen + Fast
    /\ pc \in {"top", "poll", "publish"} => InTime
    /\ pc \in {"query", "pollDid"} /\ current # "SPEED"
          => wakeBy < Seen + Fast + Lasts(Cardinality(Others))
    /\ pc = "query" /\ current = "SPEED"
          => \/ wakeBy < Seen + 2 * Fast + MaxLag + Lasts(Len(poller.items) - 1)
             \/ wakeBy <= Seen + 2 * Fast + MaxLag

ProbesInv == pc \in {"probePack", "probeAssist"} => Seen = Never
SpeedInv == EngineHolds /\ discovered /\ Seen # Never => Round

\* A discovery starts without values.
LEMMA ProbesStep == StateInv /\ ProbesInv /\ [Next]_vars => ProbesInv'
<1> SUFFICES ASSUME StateInv, ProbesInv, [Next]_vars, pc' \in {"probePack", "probeAssist"}
             PROVE  Seen' = Never
  BY DEF ProbesInv
<1>0. HeardWaits
  BY DEF StateInv, ThreadInv
<1>1. CASE DiscoverObd
  <2>1. values' = NoValues
    BY <1>1, ObdFacts DEF ObdFound
  <2> QED
    BY <2>1, KeyFacts DEF NoValues, Seen
<1>2. CASE ProbePackAnswer
  BY <1>2 DEF ProbePackAnswer, ProbesInv, Seen
<1>3. ASSUME UNCHANGED <<pc, values>>
      PROVE  Seen' = Never
  BY <1>3 DEF ProbesInv, Seen
<1>4. ~DiscoveryEnds
  BY DiscoveryFacts
<1>5. CASE PollRequest
  BY <1>0, <1>5, RequestsFacts DEF AsksEngine, AsksBms
<1>6. CASE QueryAnswer \/ QueryFail \/ PollDidReply \/ PollDidFail
  BY <1>6, PollEnds
<1>7. CASE LoopTop \/ LoopExit \/ Wake \/ DiscoverFail
  BY <1>7 DEF LoopTop, LoopExit, Wake, return, DiscoverFail
<1>8. CASE PollIdle \/ IdleEnd \/ Publish \/ StopJoined
  BY <1>8 DEF PollIdle, IdleEnd, return, Publish, StopJoined
<1>9. CASE onTelltales
  BY <1>0, <1>3, <1>9, TelltalesFacts
<1>10. CASE Stop \/ Advance
  BY <1>3, <1>10 DEF Stop, Advance
<1>11. ASSUME NEW kind \in Records, BmsReplies(kind)
       PROVE  UNCHANGED <<pc, values>>
  BY <1>11 DEF BmsReplies
<1>12. ASSUME NEW lit \in SUBSET Lamps, Broadcast(lit)
       PROVE  UNCHANGED <<pc, values>>
  BY <1>12 DEF Broadcast
<1>13. ASSUME NEW ecus \in Movers, Moves(ecus)
       PROVE  UNCHANGED <<pc, values>>
  BY <1>13 DEF Moves
<1>14. CASE UNCHANGED vars
  BY <1>3, <1>14
<1>15. CASE DiscoverNextBlock
  BY <1>3, <1>15, NextBlockFacts
<1> QED
  BY <1>1, <1>2, <1>3, <1>4, <1>5, <1>6, <1>7, <1>8, <1>9, <1>10, <1>11, <1>12, <1>13,
     <1>14, <1>15, Steps DEF Probes

\* The numbers of a round.
LEMMA RoundFacts ==
    ASSUME StateInv, FirstInv, "SPEED" \in Blocks[1], discovered
    PROVE  /\ Seen \in Nat \cup {Never} /\ SpeedDue \in Nat /\ SpeedDue <= now + Fast
           /\ Cardinality(Others) \in Nat /\ Len(poller.items) \in Nat
           /\ Cardinality(Others) <= Len(poller.items) - 1
           /\ Lasts(Cardinality(Others)) \in Nat /\ Lasts(Len(poller.items) - 1) \in Nat
           /\ Lasts(Cardinality(Others)) <= Lasts(Len(poller.items) - 1)
           /\ now \in Nat /\ wakeBy \in Nat
<1>1. /\ values \in [Pids -> Nat \cup {Never}] /\ now \in Nat /\ wakeBy \in Nat
  BY DEF StateInv, DataInv, ClockInv, CallInv
<1>2. /\ SpeedDue \in Nat /\ SpeedDue <= now + Fast /\ Len(poller.items) \in Nat
  BY FirstFacts DEF SpeedDue
<1> DEFINE q == Cardinality(Others)
           n == Len(poller.items)
<1>3. q \in Nat /\ q <= n - 1 /\ n \in Nat
  BY <1>2, OthersFacts
<1> HIDE DEF q, n
<1>4. n - 1 \in Nat
  BY <1>3
<1>5. Lasts(q) \in Nat /\ Lasts(n - 1) \in Nat
  BY <1>3, <1>4, LastsFacts
<1>6. Lasts(q) <= Lasts(n - 1)
  BY <1>3, <1>4, LastsMonotone
<1>7. Seen \in Nat \cup {Never}
  BY <1>1, KeyFacts DEF Seen
<1> QED
  BY <1>1, <1>2, <1>3, <1>5, <1>6, <1>7 DEF q, n


\* A poll of the speed, or of another PID or DID, in time.
LEMMA RoundAsks ==
    ASSUME StateInv, DueInv, FirstInv, EngineHolds, Seen # Never, Round, PollRequest
    PROVE  Round'
<1>0. /\ HeardWaits /\ ItemsInv /\ ClockInv /\ "SPEED" \in Blocks[1] /\ discovered
      /\ pc = "poll" /\ pc' \in {"query", "pollDid"} /\ wakeBy' = now + Fast
      /\ Seen' = Seen /\ InTime
  BY RequestsFacts DEF StateInv, ThreadInv, EngineHolds, AsksEngine, AsksBms, Seen, Round
<1> DEFINE q == Cardinality(Others)
           n == Len(poller.items)
           L == Lasts(q)
           M == Lasts(n - 1)
<1>1. /\ Seen \in Nat /\ SpeedDue \in Nat /\ q \in Nat /\ n \in Nat /\ L \in Nat /\ M \in Nat
      /\ L <= M /\ now \in Nat /\ Fast \in Nat /\ MaxLag \in Nat
  BY <1>0, RoundFacts, Durations
<1>2. SpeedDue > 0 /\ SpeedDue <= Seen + Fast
  BY <1>0 DEF Round
<1>3. CASE current' = "SPEED"
  <2>1. Len(poller'.items) = n /\ pc' = "query"
    <3>1. "SPEED" \notin Dids
      BY KeyFacts
    <3> QED
      BY <1>0, <1>3, <3>1, PickedFacts, RequestsFacts DEF AsksEngine, AsksBms
  <2>2. now < Seen + Fast + MaxLag + L \/ now <= SpeedDue + MaxLag
    BY <1>0 DEF InTime
  <2> HIDE DEF q, n, L, M
  <2>3. \/ now + Fast < Seen + 2 * Fast + MaxLag + M
        \/ now + Fast <= Seen + 2 * Fast + MaxLag
    BY <1>1, <1>2, <2>2
  <2>4. \/ wakeBy' < Seen' + 2 * Fast + MaxLag + Lasts(Len(poller'.items) - 1)
        \/ wakeBy' <= Seen' + 2 * Fast + MaxLag
    BY <1>0, <2>1, <2>3 DEF M
  <2> QED
    BY <1>3, <2>1, <2>4 DEF Round
<1>4. CASE current' # "SPEED"
  <2>1. /\ poller.items[1].due > 0 /\ poller'.items[1].due = poller.items[1].due
        /\ current' \notin Others /\ Others' = Others \cup {current'}
        /\ \E k \in 2 .. Len(poller.items) : poller.items[k].due < poller.items[1].due
    BY <1>0, <1>4, PickedFacts
  <2>2. SpeedDue' = SpeedDue
    BY <2>1 DEF SpeedDue
  <2>3. now < Seen + Fast + MaxLag + L
    <3>1. PICK k \in 2 .. Len(poller.items) : poller.items[k].due < SpeedDue
      BY <2>1 DEF SpeedDue
    <3>2. poller.items[k].due \in Nat
      BY <1>0, FirstFacts
    <3>3. ~ (poller.items[k].due >= SpeedDue)
      BY <1>1, <3>1, <3>2, SMTT(30)
    <3> QED
      BY <1>0, <3>3 DEF InTime
  <2>4. Cardinality(Others') = q + 1
    <3>1. IsFiniteSet(Others)
      BY <1>0, OthersFacts
    <3> QED
      BY <2>1, <3>1, FS_AddElement
  <2>5. Lasts(q + 1) = L + Fast + MaxLag
    BY <1>1, LastsFacts
  <2> HIDE DEF q, n, L, M
  <2>6. now + Fast < Seen + Fast + Lasts(q + 1)
    BY <1>1, <2>3, <2>5
  <2>7. wakeBy' < Seen' + Fast + Lasts(Cardinality(Others'))
    BY <1>0, <2>4, <2>6
  <2> QED
    BY <1>0, <1>2, <1>4, <2>2, <2>7 DEF Round
<1> QED
  BY <1>3, <1>4

\* A poll ends with the answer, or with that of another PID or DID.
LEMMA RoundAnswers ==
    ASSUME StateInv, FirstInv, LinkInv, EngineHolds, discovered',
           QueryAnswer \/ QueryFail \/ PollDidReply \/ PollDidFail,
           Seen # Never => Round, Seen' # Never
    PROVE  Round'
<1>0. /\ "SPEED" \in Blocks[1] /\ discovered /\ now' = now
      /\ pc \in {"query", "pollDid"} /\ pc' = "publish" /\ ~QueryFail
  BY EngineAnswers, PollEnds DEF EngineHolds, StateInv, ThreadInv
<1> DEFINE q == Cardinality(Others)
           n == Len(poller.items)
           L == Lasts(q)
<1>1. /\ Seen \in Nat \cup {Never} /\ SpeedDue \in Nat /\ q \in Nat /\ n \in Nat /\ L \in Nat
      /\ now \in Nat /\ wakeBy \in Nat
      /\ Fast \in Nat /\ Fast > 0 /\ MaxLag \in Nat /\ SpeedDue <= now + Fast
  BY <1>0, RoundFacts, Durations
<1>2. Others' = Others /\ SpeedDue' = SpeedDue
  <2>1. 1 \in 1 .. Len(poller.items)
    BY <1>0, FirstFacts
  <2> QED
    BY <1>0, <2>1, EndedOthers DEF SpeedDue
<1>3. SpeedDue > 0
  BY <1>0, <1>1 DEF FirstInv, SpeedDue
<1>4. CASE QueryAnswer /\ current = "SPEED"
  <2>1. Seen' = now
    <3>1. values' = [values EXCEPT !["SPEED"] = now] /\ values \in [Pids -> Nat \cup {Never}]
      BY <1>4 DEF QueryAnswer, StateInv, DataInv
    <3> QED
      BY <3>1, KeyFacts DEF Seen
  <2> HIDE DEF q, n, L
  <2>2. now < now + Fast + MaxLag + L
    BY <1>1
  <2>3. now' < Seen' + Fast + MaxLag + Lasts(Cardinality(Others'))
    BY <1>0, <1>2, <2>1, <2>2 DEF L, q
  <2> QED
    BY <1>0, <1>1, <1>2, <1>3, <2>1, <2>3 DEF Round, InTime
<1>5. CASE ~(QueryAnswer /\ current = "SPEED")
  <2>1. Seen' = Seen /\ current # "SPEED"
    <3>1. CASE QueryAnswer
      <4>1. values' = [values EXCEPT ![current] = now] /\ values \in [Pids -> Nat \cup {Never}]
            /\ current # "SPEED"
        BY <1>5, <3>1 DEF QueryAnswer, StateInv, DataInv
      <4> QED
        BY <4>1, KeyFacts DEF Seen
    <3>2. CASE PollDidReply \/ PollDidFail
      <4>1. UNCHANGED values /\ pc = "pollDid"
        BY <3>2 DEF PollDidReply, PollDidFail
      <4>2. current \in Dids
        BY <4>1 DEF StateInv, ItemsInv
      <4> QED
        BY <4>1, <4>2, KeyFacts DEF Seen
    <3> QED
      BY <1>0, <3>1, <3>2
  <2>2. SpeedDue <= Seen + Fast /\ wakeBy < Seen + Fast + L
    BY <1>0, <2>1 DEF Round
  <2>3. now <= wakeBy + MaxLag
    BY <1>0 DEF StateInv, CallInv, Blocking, RawCalls, IsoCalls
  <2>4. Seen \in Nat
    BY <1>1, <2>1
  <2> HIDE DEF q, n, L
  <2>5. now < Seen + Fast + MaxLag + L
    BY <1>1, <2>2, <2>3, <2>4
  <2>6. now' < Seen' + Fast + MaxLag + Lasts(Cardinality(Others'))
    BY <1>0, <1>2, <2>1, <2>5 DEF L, q
  <2> QED
    BY <1>0, <1>2, <1>3, <2>1, <2>2, <2>6 DEF Round, InTime
<1> QED
  BY <1>4, <1>5

\* The thread wakes up for what is due.
LEMMA RoundWakes ==
    ASSUME StateInv, DueInv, FirstInv, EngineHolds, discovered, Seen # Never, Round,
           pc = "idle", pc' = "publish", UNCHANGED <<poller, values, now>>
    PROVE  Round'
<1> DEFINE L == Lasts(Cardinality(Others))
<1>1. /\ Seen \in Nat /\ SpeedDue \in Nat /\ L \in Nat /\ now \in Nat /\ wakeBy \in Nat
      /\ Fast \in Nat /\ MaxLag \in Nat
  BY RoundFacts, Durations DEF EngineHolds
<1>2. SpeedDue > 0 /\ SpeedDue <= Seen + Fast
  BY DEF Round
<1>3. now <= wakeBy + MaxLag
  BY DEF StateInv, CallInv, Blocking, RawCalls
<1>4. /\ 1 \in 1 .. Len(poller.items)
      /\ \A i \in 2 .. Len(poller.items) :
            i \in 1 .. Len(poller.items) /\ poller.items[i].due \in Nat
  BY FirstFacts DEF EngineHolds
<1>5. wakeBy <= SpeedDue
  BY <1>4 DEF DueInv, SpeedDue
<1>6. InTime
  <2>1. CASE \A i \in 2 .. Len(poller.items) : poller.items[i].due >= SpeedDue
    <3> HIDE DEF L
    <3>1. now <= SpeedDue + MaxLag
      BY <1>1, <1>3, <1>5
    <3> QED
      BY <2>1, <3>1 DEF InTime
  <2>2. CASE \E i \in 2 .. Len(poller.items) : ~(poller.items[i].due >= SpeedDue)
    <3>1. PICK i \in 2 .. Len(poller.items) : ~(poller.items[i].due >= SpeedDue)
      BY <2>2
    <3> DEFINE d == poller.items[i].due
    <3>2. d \in Nat /\ wakeBy <= d /\ ~(d >= SpeedDue)
      BY <1>4, <3>1 DEF DueInv
    <3> HIDE DEF d, L
    <3>3. now < Seen + Fast + MaxLag + L
      BY <1>1, <1>2, <1>3, <3>2
    <3> QED
      BY <3>3 DEF InTime, L
  <2> QED
    BY <2>1, <2>2
<1>7. Others' = Others /\ SpeedDue' = SpeedDue /\ Seen' = Seen
  BY DEF Others, SinceItem, SpeedDue, Seen
<1>8. InTime'
  BY <1>6, <1>7 DEF InTime
<1> QED
  BY <1>2, <1>7, <1>8 DEF Round


LEMMA SpeedStep ==
    /\ StateInv /\ DueInv /\ FirstInv /\ LinkInv /\ ProbesInv /\ SpeedInv
    /\ [Next]_vars
    => SpeedInv'
<1> SUFFICES ASSUME StateInv, DueInv, FirstInv, LinkInv, ProbesInv, SpeedInv, [Next]_vars,
                    EngineHolds', discovered', Seen' # Never
             PROVE  Round'
  BY DEF SpeedInv
<1>0. /\ HeardWaits /\ ThreadInv /\ EngineHolds
      /\ up \subseteq Ecus /\ (owed # <<>> => "bms" \in up)
  BY EngineHeld DEF StateInv, ThreadInv, IsoInv
<1>1. ASSUME discovered, UNCHANGED <<poller, values, wakeBy, current, pc>>,
             pc \in {"top", "poll", "publish"} => UNCHANGED now
      PROVE  Round'
  <2>1. Round /\ Seen' = Seen
    BY <1>0, <1>1 DEF SpeedInv, Seen
  <2>2. Others' = Others /\ SpeedDue' = SpeedDue
    BY <1>1 DEF Others, SinceItem, SpeedDue
  <2> QED
    BY <1>1, <2>1, <2>2 DEF Round, InTime
<1>2. ASSUME discovered, UNCHANGED <<poller, values, now>>,
             pc \notin {"query", "pollDid"}, pc' \notin {"query", "pollDid"},
             pc' \in {"top", "poll", "publish"} => pc \in {"top", "poll", "publish"}
      PROVE  Round'
  <2>1. Round /\ Seen' = Seen
    BY <1>0, <1>2 DEF SpeedInv, Seen
  <2>2. Others' = Others /\ SpeedDue' = SpeedDue
    BY <1>2 DEF Others, SinceItem, SpeedDue
  <2> QED
    BY <1>2, <2>1, <2>2 DEF Round, InTime
<1>3. CASE Probes
  BY <1>0, <1>3, ProbeFacts DEF ThreadInv
<1>4. CASE DiscoveryEnds
  <2>1. CASE DiscoverObd
    <3>1. values' = NoValues
      BY <2>1, ObdFacts DEF ObdFound
    <3> QED
      BY <3>1, KeyFacts DEF NoValues, Seen
  <2>2. CASE ProbePackFail \/ ProbeAssist
    BY <2>2 DEF ProbePackFail, ProbeAssist, ProbesInv, Seen
  <2> QED
    BY <1>4, <2>1, <2>2 DEF DiscoveryEnds
<1>5. CASE PollRequest
  <2>1. discovered /\ Seen # Never
    BY <1>0, <1>5, RequestsFacts DEF ThreadInv, Seen
  <2> QED
    BY <1>0, <1>5, <2>1, RoundAsks DEF SpeedInv
<1>6. CASE QueryAnswer \/ QueryFail \/ PollDidReply \/ PollDidFail
  <2>1. discovered
    BY <1>0, <1>6, PollEnds DEF ThreadInv
  <2> QED
    BY <1>0, <1>6, <2>1, RoundAnswers DEF SpeedInv
<1>7. CASE LoopTop \/ LoopExit \/ Wake \/ DiscoverFail
  BY <1>0, <1>2, <1>7 DEF LoopTop, LoopExit, Wake, return, DiscoverFail, ThreadInv
<1>8. CASE PollIdle \/ Publish \/ StopJoined
  BY <1>2, <1>8 DEF PollIdle, Publish, StopJoined
<1>9. CASE IdleEnd
  <2>1. pc = "idle" /\ pc' = "publish" /\ UNCHANGED <<poller, values, now, discovered>>
    BY <1>9 DEF IdleEnd, return
  <2> QED
    BY <1>0, <2>1, RoundWakes DEF SpeedInv, Seen
<1>10. CASE onTelltales
  <2>1. /\ UNCHANGED <<discovered, poller, values, now>>
        /\ \/ pc = "idle" /\ pc' = "publish"
           \/ UNCHANGED <<pc, current, wakeBy>>
    BY <1>0, <1>10, TelltalesFacts
  <2>2. CASE pc = "idle" /\ pc' = "publish"
    BY <1>0, <2>1, <2>2, RoundWakes DEF SpeedInv, Seen
  <2> QED
    BY <1>1, <2>1, <2>2
<1>11. CASE Stop \/ Advance
  BY <1>1, <1>11 DEF Stop, Advance
<1>12. ASSUME NEW kind \in Records, BmsReplies(kind)
       PROVE  UNCHANGED <<discovered, poller, values, wakeBy, current, pc, now>>
  BY <1>12 DEF BmsReplies
<1>13. ASSUME NEW lit \in SUBSET Lamps, Broadcast(lit)
       PROVE  UNCHANGED <<discovered, poller, values, wakeBy, current, pc, now>>
  BY <1>13 DEF Broadcast
<1>14. ASSUME NEW ecus \in Movers, Moves(ecus)
       PROVE  UNCHANGED <<discovered, poller, values, wakeBy, current, pc, now>>
  BY <1>14 DEF Moves
<1>15. CASE UNCHANGED vars
  BY <1>1, <1>15
<1>16. CASE DiscoverNextBlock
  BY <1>0, <1>16, NextBlockFacts DEF ThreadInv
<1> QED
  BY <1>1, <1>3, <1>4, <1>5, <1>6, <1>7, <1>8, <1>9, <1>10, <1>11, <1>12, <1>13,
     <1>14, <1>15, <1>16, Steps

\* The bound of SpeedPolled, in the terms of a round.
LEMMA BoundFacts ==
    ASSUME NEW n \in Nat, n >= 1
    PROVE  LET bound == Max({2 * Fast, (1 + n) * Fast - 1}) + (1 + n) * MaxLag
           IN  /\ bound \in Int /\ bound >= 2 * Fast + 2 * MaxLag
               /\ bound >= Lasts(n - 1) + 2 * Fast + 2 * MaxLag - 1
<1> DEFINE a == (1 + n) * Fast
           b == (1 + n) * MaxLag
           m == Max({2 * Fast, a - 1})
<1>1. PICK k \in Nat : n = k + 1 /\ n - 1 = k
  <2>1. n - 1 \in Nat /\ n = (n - 1) + 1
    OBVIOUS
  <2> QED
    BY <2>1
<1>2. Fast \in Nat /\ MaxLag \in Nat
  BY Durations
<1>3. a \in Int /\ b \in Int
  <2>1. 1 + n \in Nat
    OBVIOUS
  <2> QED
    BY <1>2, <2>1, ProductIsInt
<1>4. Lasts(n - 1) + 2 * Fast + 2 * MaxLag = a + b
  <2>1. Lasts(n - 1) = k * (Fast + MaxLag)
    BY <1>1 DEF Lasts
  <2>2. k * (Fast + MaxLag) = k * Fast + k * MaxLag
    BY <1>2
  <2>3. a = k * Fast + 2 * Fast /\ b = k * MaxLag + 2 * MaxLag
    BY <1>1, <1>2
  <2>4. k * Fast \in Nat /\ k * MaxLag \in Nat
    BY <1>2
  <2> HIDE DEF a, b
  <2> QED
    BY <1>2, <2>1, <2>2, <2>3, <2>4
<1>5. b >= 2 * MaxLag
  <2>1. b = k * MaxLag + 2 * MaxLag /\ k * MaxLag \in Nat
    BY <1>1, <1>2
  <2> HIDE DEF b
  <2> QED
    BY <1>2, <2>1
<1>6. Lasts(n - 1) \in Nat
  BY <1>1, LastsFacts
<1> HIDE DEF a, b
<1>7. m = IF 2 * Fast >= a - 1 THEN 2 * Fast ELSE a - 1
  <2>1. 2 * Fast \in Int /\ a - 1 \in Int
    BY <1>2, <1>3
  <2> QED
    BY <2>1, MinMaxOfTwo
<1> HIDE DEF m
<1>8. m + b \in Int /\ m + b >= 2 * Fast + 2 * MaxLag
      /\ m + b >= Lasts(n - 1) + 2 * Fast + 2 * MaxLag - 1
  BY <1>2, <1>3, <1>4, <1>5, <1>6, <1>7
<1> QED
  BY <1>8 DEF a, b, m

\* SpeedPolled: while the engine ECU answers, the other PIDs and DIDs keep the speed
\* waiting at most once each, whatever the intervals, timeouts and lags are.
THEOREM SpeedIsPolled == Spec => []SpeedPolled
<1>1. Init => ProbesInv /\ SpeedInv
  <2>1. Init => pc = "top" /\ discovered = FALSE
    BY DEF Init
  <2> QED
    BY <2>1 DEF ProbesInv, SpeedInv
<1>2. /\ StateInv /\ DueInv /\ FirstInv /\ LinkInv /\ ProbesInv /\ SpeedInv
      /\ [Next]_vars
      => ProbesInv' /\ SpeedInv'
  BY ProbesStep, SpeedStep
<1>3. StateInv /\ DueInv /\ FirstInv /\ SpeedInv => SpeedPolled
  <2> SUFFICES ASSUME StateInv, DueInv, FirstInv, SpeedInv, "obd" \in up \ UNION Movers, ~Lossy,
                      running, discovered, values["SPEED"] # Never
               PROVE  now - values["SPEED"]
                         <= Max({2 * Fast, (1 + Len(poller.items)) * Fast - 1})
                            + (1 + Len(poller.items)) * MaxLag
    BY DEF SpeedPolled
  <2>1. pc \in {"top", "poll", "query", "pollDid", "idle", "publish"} /\ Seen # Never
    BY DEF StateInv, ThreadInv, Seen
  <2>2. "SPEED" \in Blocks[1] /\ EngineHolds
    <3>1. "SPEED" \in PidsOf(poller)
      BY KeyFacts DEF StateInv, DataInv
    <3>2. "SPEED" \in supported
      BY <2>1, <3>1, KeyFacts DEF StateInv, PolledInv, CapableKeys
    <3> QED
      BY <3>2, BlockFacts DEF StateInv, PolledInv, EngineHolds
  <2> DEFINE n == Len(poller.items)
             L == Lasts(Cardinality(Others))
             M == Lasts(n - 1)
             bound == Max({2 * Fast, (1 + n) * Fast - 1}) + (1 + n) * MaxLag
  <2>3. /\ Seen \in Nat /\ SpeedDue \in Nat /\ L \in Nat /\ M \in Nat /\ L <= M
        /\ now \in Nat /\ wakeBy \in Nat /\ Fast \in Nat /\ Fast > 0 /\ MaxLag \in Nat
    BY <2>1, <2>2, RoundFacts, Durations
  <2>4. n \in Nat /\ n >= 1 /\ 1 \in 1 .. n
    BY <2>2, FirstFacts
  <2>5. /\ bound \in Int /\ bound >= 2 * Fast + 2 * MaxLag
        /\ bound >= M + 2 * Fast + 2 * MaxLag - 1
    BY <2>4, BoundFacts
  <2>6. Round
    BY <2>1, <2>2 DEF SpeedInv
  <2>7. pc \in {"query", "pollDid", "idle"} => now <= wakeBy + MaxLag
    BY DEF StateInv, CallInv, Blocking, RawCalls, IsoCalls
  <2>8. CASE pc \in {"top", "poll", "publish"}
    <3>1. \/ now < Seen + Fast + MaxLag + L
          \/ now <= SpeedDue + MaxLag
      BY <2>6, <2>8 DEF Round, InTime
    <3>2. SpeedDue <= Seen + Fast
      BY <2>6, <2>8 DEF Round
    <3> HIDE DEF n, L, M, bound
    <3>3. now - Seen <= bound
      BY <2>3, <2>5, <3>1, <3>2
    <3> QED
      BY <3>3 DEF bound, n, Seen
  <2>9. CASE pc = "idle"
    <3>1. SpeedDue <= Seen + Fast /\ wakeBy <= SpeedDue
      BY <2>4, <2>6, <2>9 DEF Round, DueInv, SpeedDue
    <3> HIDE DEF n, L, M, bound
    <3>2. now - Seen <= bound
      BY <2>3, <2>5, <2>7, <2>9, <3>1
    <3> QED
      BY <3>2 DEF bound, n, Seen
  <2>10. CASE pc \in {"query", "pollDid"} /\ current # "SPEED"
    <3>1. wakeBy < Seen + Fast + L
      BY <2>6, <2>10 DEF Round
    <3> HIDE DEF n, L, M, bound
    <3>2. now - Seen <= bound
      BY <2>3, <2>5, <2>7, <2>10, <3>1
    <3> QED
      BY <3>2 DEF bound, n, Seen
  <2>11. CASE pc \in {"query", "pollDid"} /\ current = "SPEED"
    <3>1. pc = "query"
      BY <2>11, KeyFacts DEF StateInv, ItemsInv
    <3>2. \/ wakeBy < Seen + 2 * Fast + MaxLag + M
          \/ wakeBy <= Seen + 2 * Fast + MaxLag
      BY <2>6, <2>11, <3>1 DEF Round
    <3> HIDE DEF n, L, M, bound
    <3>3. now - Seen <= bound
      BY <2>3, <2>5, <2>7, <2>11, <3>2
    <3> QED
      BY <3>3 DEF bound, n, Seen
  <2> QED
    BY <2>1, <2>8, <2>9, <2>10, <2>11
<1> QED
  BY StateInvariance, RobinInvariance, <1>1, <1>2, <1>3, PTL DEF Spec
-----------------------------------------------------------------------------
(***************************************************************************)
(* Lamps that are handed over as lit are recent.                           *)
(***************************************************************************)

\* When the oldest broadcast that waits came, and how long the DIDs polled since the
\* speed may have taken.
Oldest == inbox[1].at
DidsLast == Lasts(Cardinality(PolledDids))

\* How long the oldest broadcast has waited, or will have when the call ends.
Waiting ==
    /\ pc \in {"top", "discover", "query"} => now <= Oldest + Unread + 5 * MaxLag
    /\ pc \in {"top", "publish", "idle", "poll"} /\ discovered /\ SpeedDue > 0
          => now <= Oldest + MaxLag + DidsLast
    /\ pc = "poll" /\ SpeedDue = 0 => now <= Oldest + 2 * DiscoverTimeout + 3 * MaxLag
    /\ pc = "pollDid" => wakeBy <= Oldest + DidsLast
    /\ pc = "probePack" => wakeBy <= Oldest + MaxLag + DiscoverTimeout
    /\ pc = "probeAssist" => wakeBy <= Oldest + 2 * MaxLag + 2 * DiscoverTimeout
    /\ pc = "sleep" => wakeBy <= Oldest + MaxLag + RetrySleep

StaleInv ==
    "SPEED" \in Blocks[1] /\ ~Lossy =>
       /\ lampsSeen >= 0 => lampsSeen <= lampsAt + Unread + 5 * MaxLag
       /\ inbox # <<>> => Waiting

\* A discovery's first block is asked for right after the top of the loop.
AskedInv == pc = "discover" /\ block = 1 => wakeBy <= loopNow + DiscoverTimeout

LEMMA AskedStep == StateInv /\ AskedInv /\ [Next]_vars => AskedInv'
<1> SUFFICES ASSUME StateInv, AskedInv, [Next]_vars, pc' = "discover", block' = 1
             PROVE  wakeBy' <= loopNow' + DiscoverTimeout
  BY DEF AskedInv
<1>0. HeardWaits
  BY DEF StateInv, ThreadInv
<1>1. ASSUME UNCHANGED <<pc, block, wakeBy, loopNow>>
      PROVE  wakeBy' <= loopNow' + DiscoverTimeout
  BY <1>1 DEF AskedInv
<1>2. CASE LoopTop
  <2>1. wakeBy' = now + DiscoverTimeout /\ loopNow' = now
    BY <1>2 DEF LoopTop, request
  <2>2. now \in Nat /\ DiscoverTimeout \in Nat
    BY Durations DEF StateInv, ClockInv
  <2> QED
    BY <2>1, <2>2
<1>3. CASE Probes \/ DiscoveryEnds
  BY <1>0, <1>3, ProbeFacts, DiscoveryFacts
<1>4. CASE PollRequest
  BY <1>0, <1>4, RequestsFacts DEF AsksEngine, AsksBms
<1>5. CASE QueryAnswer \/ QueryFail \/ PollDidReply \/ PollDidFail
  BY <1>5, PollEnds
<1>6. CASE LoopExit \/ Wake \/ DiscoverFail
  BY <1>6 DEF LoopExit, Wake, return, DiscoverFail
<1>7. CASE PollIdle \/ IdleEnd \/ Publish \/ StopJoined
  BY <1>7 DEF PollIdle, IdleEnd, return, Publish, StopJoined
<1>8. CASE onTelltales
  BY <1>0, <1>1, <1>8, TelltalesFacts
<1>9. CASE Stop \/ Advance
  BY <1>1, <1>9 DEF Stop, Advance
<1>10. ASSUME NEW kind \in Records, BmsReplies(kind)
       PROVE  UNCHANGED <<pc, block, wakeBy, loopNow>>
  BY <1>10 DEF BmsReplies
<1>11. ASSUME NEW lit \in SUBSET Lamps, Broadcast(lit)
       PROVE  UNCHANGED <<pc, block, wakeBy, loopNow>>
  BY <1>11 DEF Broadcast
<1>12. ASSUME NEW ecus \in Movers, Moves(ecus)
       PROVE  UNCHANGED <<pc, block, wakeBy, loopNow>>
  BY <1>12 DEF Moves
<1>13. CASE UNCHANGED vars
  BY <1>1, <1>13
<1>14. CASE DiscoverNextBlock
  <2>1. block' = block + 1 /\ block \in Nat /\ block >= 1
    BY <1>14, NextBlockFacts DEF StateInv, ChainInv
  <2> QED
    BY <2>1
<1> QED
  BY <1>1, <1>2, <1>3, <1>4, <1>5, <1>6, <1>7, <1>8, <1>9, <1>10, <1>11, <1>12, <1>13, <1>14, Steps

\* The longest time the raw socket goes unread.
LEMMA UnreadFacts ==
    /\ Unread \in Nat
    /\ Unread >= RetrySleep /\ Unread >= 2 * DiscoverTimeout /\ Unread >= 4 * Fast
<1> DEFINE a == RetrySleep
           b == 2 * DiscoverTimeout
           c == 4 * Fast
<1>1. a \in Nat /\ b \in Nat /\ c \in Nat
  BY Durations
<1> HIDE DEF a, b, c
<1>2. \E x \in {a, b, c} : \A y \in {a, b, c} : x >= y
  <2>1. CASE a >= b /\ a >= c
    BY <1>1, <2>1
  <2>2. CASE b >= a /\ b >= c
    BY <1>1, <2>2
  <2>3. CASE c >= a /\ c >= b
    BY <1>1, <2>3
  <2> QED
    BY <1>1, <2>1, <2>2, <2>3
<1>3. Max({a, b, c}) \in {a, b, c} /\ \A y \in {a, b, c} : Max({a, b, c}) >= y
  BY <1>2 DEF Max
<1> QED
  BY <1>1, <1>3 DEF Unread, a, b, c

\* The numbers of a wait.
LEMMA WaitFacts ==
    ASSUME StateInv, FirstInv, "SPEED" \in Blocks[1]
    PROVE  /\ now \in Nat /\ wakeBy \in Nat
           /\ pc \in Blocking => now <= wakeBy + MaxLag
           /\ inbox # <<>> => Oldest \in Nat /\ Oldest <= now /\ Head(inbox) = inbox[1]
           /\ discovered => /\ DidsLast \in Nat /\ DidsLast <= 4 * Fast + 4 * MaxLag
                            /\ SpeedDue \in Nat /\ (pc # "poll" => SpeedDue > 0)
           /\ pc = "pollDid" => DidsLast >= Fast + MaxLag
<1>1. now \in Nat /\ wakeBy \in Nat /\ (pc \in Blocking => now <= wakeBy + MaxLag)
  BY DEF StateInv, ClockInv, CallInv
<1>2. ASSUME inbox # <<>>
      PROVE  Oldest \in Nat /\ Oldest <= now /\ Head(inbox) = inbox[1]
  <2>1. inbox \in Seq(Broadcasts) /\ \A i \in 1 .. Len(inbox) : inbox[i].at <= now
    BY DEF StateInv, LampsInv
  <2>2. 1 \in 1 .. Len(inbox) /\ inbox[1] \in Broadcasts /\ Head(inbox) = inbox[1]
    BY <1>2, <2>1
  <2> QED
    BY <2>1, <2>2 DEF Oldest, Broadcasts
<1> DEFINE q == Cardinality(PolledDids)
<1>3. ASSUME discovered
      PROVE  /\ DidsLast \in Nat /\ DidsLast <= 4 * Fast + 4 * MaxLag
             /\ SpeedDue \in Nat /\ (pc # "poll" => SpeedDue > 0)
  <2>1. q \in Nat /\ q <= 4
    BY <1>3, OthersFacts
  <2>2. SpeedDue \in Nat /\ (pc # "poll" => SpeedDue # 0)
    BY <1>3, FirstFacts DEF FirstInv, SpeedDue
  <2> HIDE DEF q
  <2>3. Lasts(q) \in Nat /\ Lasts(q) <= Lasts(4) /\ Lasts(4) = 4 * Fast + 4 * MaxLag
    BY <2>1, LastsFacts, LastsMonotone
  <2> QED
    BY <2>2, <2>3 DEF DidsLast, q
<1>4. ASSUME pc = "pollDid"
      PROVE  DidsLast >= Fast + MaxLag
  <2>1. discovered /\ current \in Dids /\ current # "SPEED"
    BY <1>4, KeyFacts DEF StateInv, ThreadInv, ItemsInv
  <2>2. current \in PolledDids
    BY <1>4, <2>1 DEF FirstInv, PolledDids
  <2>3. q \in Nat /\ IsFiniteSet(PolledDids)
    BY <2>1, OthersFacts
  <2>4. q # 0
    BY <2>2, <2>3, FS_EmptySet
  <2> HIDE DEF q
  <2>5. Lasts(1) <= Lasts(q)
    BY <2>3, <2>4, LastsMonotone
  <2>6. Lasts(0 + 1) = Lasts(0) + Fast + MaxLag /\ Lasts(0) = 0 /\ 0 + 1 = 1
    BY LastsFacts
  <2>7. Lasts(q) \in Nat
    BY <2>3, LastsFacts
  <2>8. Lasts(q) >= Fast + MaxLag
    BY <2>5, <2>6, <2>7, Durations
  <2> QED
    BY <2>8 DEF DidsLast, q
<1> QED
  BY <1>1, <1>2, <1>3, <1>4


\* A thread that goes to the raw socket, polls, or polls on, in time.
LEMMA WaitPolls ==
    ASSUME StateInv, DueInv, FirstInv, "SPEED" \in Blocks[1], inbox # <<>>, Waiting,
           PollRequest
    PROVE  Waiting'
<1>0. /\ HeardWaits /\ discovered /\ pc = "poll" /\ wakeBy' = now + Fast
      /\ UNCHANGED <<now, inbox>>
  BY RequestsFacts DEF StateInv, ThreadInv
<1>1. /\ now \in Nat /\ Oldest \in Nat /\ Oldest <= now /\ Unread \in Nat
      /\ Unread >= 2 * DiscoverTimeout /\ Unread >= 4 * Fast
      /\ DidsLast \in Nat /\ DidsLast <= 4 * Fast + 4 * MaxLag /\ SpeedDue \in Nat
      /\ Fast \in Nat /\ MaxLag \in Nat /\ DiscoverTimeout \in Nat
  BY <1>0, WaitFacts, UnreadFacts, Durations
<1>2. SpeedDue > 0 => now <= Oldest + MaxLag + DidsLast
  BY <1>0 DEF Waiting
<1>3. Oldest' = Oldest
  BY <1>0 DEF Oldest
<1>4. CASE AsksEngine
  <2>1. pc' = "query"
    BY <1>4 DEF AsksEngine
  <2>2. now <= Oldest + Unread + 5 * MaxLag
    <3>1. SpeedDue = 0 => now <= Oldest + 2 * DiscoverTimeout + 3 * MaxLag
      BY <1>0 DEF Waiting
    <3>2. CASE SpeedDue = 0
      BY <1>1, <3>1, <3>2
    <3>3. CASE SpeedDue > 0
      BY <1>1, <1>2, <3>3
    <3> QED
      BY <1>1, <3>2, <3>3
  <2> QED
    BY <1>0, <1>3, <2>1, <2>2 DEF Waiting
<1>5. CASE AsksBms
  <2>1. pc' = "pollDid" /\ current' \in Dids /\ current' # "SPEED"
    BY <1>5, KeyFacts DEF AsksBms
  <2>2. /\ poller.items[1].due > 0
        /\ current' \notin Others /\ Others' = Others \cup {current'}
    BY <2>1, PickedFacts
  <2>3. DidsLast' = DidsLast + Fast + MaxLag
    <3>1. current' \notin PolledDids /\ PolledDids' = PolledDids \cup {current'}
      BY <2>1, <2>2 DEF PolledDids
    <3>2. IsFiniteSet(PolledDids) /\ Cardinality(PolledDids) \in Nat
      BY <1>0, OthersFacts
    <3>3. Cardinality(PolledDids') = Cardinality(PolledDids) + 1
      BY <3>1, <3>2, FS_AddElement
    <3>4. Lasts(Cardinality(PolledDids) + 1) = Lasts(Cardinality(PolledDids)) + Fast + MaxLag
      BY <3>2, LastsFacts
    <3> QED
      BY <3>3, <3>4 DEF DidsLast
  <2>4. now <= Oldest + MaxLag + DidsLast
    BY <1>2, <2>2 DEF SpeedDue
  <2>5. now + Fast <= Oldest + (DidsLast + Fast + MaxLag)
    BY <1>1, <2>4
  <2>6. wakeBy' <= Oldest' + DidsLast'
    BY <1>0, <1>3, <2>3, <2>5
  <2> QED
    BY <2>1, <2>6 DEF Waiting
<1> QED
  BY <1>0, <1>4, <1>5, RequestsFacts

LEMMA WaitEnds ==
    ASSUME StateInv, FirstInv, "SPEED" \in Blocks[1], ~Lossy, inbox # <<>>, Waiting,
           QueryAnswer \/ QueryFail \/ PollDidReply \/ PollDidFail
    PROVE  Waiting'
<1>0. /\ discovered /\ pc \in {"query", "pollDid"} /\ UNCHANGED <<now, inbox>>
      /\ pc' \in {"publish", "top"} /\ (pc' = "top" => ~discovered')
  BY PollEnds DEF StateInv, ThreadInv
<1>1. /\ now \in Nat /\ wakeBy \in Nat /\ Oldest \in Nat /\ Oldest <= now /\ Unread \in Nat
      /\ Unread >= 4 * Fast /\ Head(inbox) = inbox[1]
      /\ DidsLast \in Nat /\ DidsLast <= 4 * Fast + 4 * MaxLag
      /\ Fast \in Nat /\ MaxLag \in Nat /\ now <= wakeBy + MaxLag
  BY <1>0, WaitFacts, UnreadFacts, Durations DEF Blocking, RawCalls, IsoCalls
<1>2. Oldest' = Oldest /\ DidsLast' = DidsLast
  BY <1>0, EndedOthers DEF Oldest, DidsLast
<1>3. now <= Oldest + MaxLag + DidsLast
  <2>1. CASE pc = "query"
    <3>1. AnswerNext
      BY <2>1 DEF QueryAnswer, QueryFail, GivesUp, PollDidReply, PollDidFail
    <3>2. Oldest >= now - MaxLag
      BY <1>1, <3>1 DEF AnswerNext, Oldest
    <3> QED
      BY <1>1, <3>2
  <2>2. CASE pc = "pollDid"
    <3>1. wakeBy <= Oldest + DidsLast
      BY <2>2 DEF Waiting
    <3> QED
      BY <1>1, <3>1
  <2> QED
    BY <1>0, <2>1, <2>2
<1>4. now <= Oldest + Unread + 5 * MaxLag
  BY <1>1, <1>3
<1> QED
  BY <1>0, <1>2, <1>3, <1>4 DEF Waiting

LEMMA WaitDiscovers ==
    ASSUME StateInv, FirstInv, "SPEED" \in Blocks[1], ~Lossy, inbox # <<>>, Waiting,
           Probes \/ DiscoveryEnds
    PROVE  Waiting'
<1>0. /\ HeardWaits /\ PolledInv /\ ChainInv /\ UNCHANGED <<now, inbox>>
      /\ pc \in {"discover", "probePack", "probeAssist"}
  BY ProbeFacts, DiscoveryFacts DEF StateInv, ThreadInv
<1>1. /\ now \in Nat /\ wakeBy \in Nat /\ Oldest \in Nat /\ Oldest <= now
      /\ Head(inbox) = inbox[1]
      /\ DiscoverTimeout \in Nat /\ MaxLag \in Nat /\ now <= wakeBy + MaxLag
  BY <1>0, WaitFacts, Durations DEF Blocking, RawCalls, IsoCalls
<1>2. Oldest' = Oldest
  BY <1>0 DEF Oldest
<1>3. pc = "discover" => now <= Oldest + MaxLag
  <2> SUFFICES ASSUME pc = "discover"
               PROVE  now <= Oldest + MaxLag
    OBVIOUS
  <2>1. AnswerNext
    BY DEF Probes, DiscoveryEnds, DiscoverObd, DiscoverLastBlock, DiscoverCutShort, GivesUp,
           ProbePackAnswer, ProbePackFail, ProbeAssist
  <2>2. Oldest >= now - MaxLag
    BY <1>1, <2>1 DEF AnswerNext, Oldest
  <2> QED
    BY <1>1, <2>2
<1>4. pc = "probePack" => now <= Oldest + 2 * MaxLag + DiscoverTimeout
  BY <1>1 DEF Waiting
<1>5. pc = "probeAssist" => now <= Oldest + 3 * MaxLag + 2 * DiscoverTimeout
  BY <1>1 DEF Waiting
<1>6. CASE Probes
  <2>1. /\ wakeBy' = now + DiscoverTimeout
        /\ \/ pc = "discover" /\ pc' = "probePack"
           \/ pc = "probePack" /\ pc' = "probeAssist"
    BY <1>0, <1>6, ProbeFacts
  <2>2. CASE pc = "discover" /\ pc' = "probePack"
    <3>1. now + DiscoverTimeout <= Oldest + MaxLag + DiscoverTimeout
      BY <1>1, <1>3, <2>2
    <3> QED
      BY <1>2, <2>1, <2>2, <3>1 DEF Waiting
  <2>3. CASE pc = "probePack" /\ pc' = "probeAssist"
    <3>1. now + DiscoverTimeout <= Oldest + 2 * MaxLag + 2 * DiscoverTimeout
      BY <1>1, <1>4, <2>3
    <3> QED
      BY <1>2, <2>1, <2>3, <3>1 DEF Waiting
  <2> QED
    BY <2>1, <2>2, <2>3
<1>7. CASE DiscoveryEnds
  <2>1. pc' = "poll"
    BY <1>7, DiscoveryFacts
  <2>2. PICK keys : Started(poller', keys) /\ Blocks[1] \cap Pids \subseteq keys
    BY <1>0, <1>7, DiscoveryFirst
  <2>3. "SPEED" \in keys /\ Len(poller'.items) \in Nat
    BY <2>2, KeyFacts, ItemFacts DEF Started
  <2>4. 1 \in 1 .. Len(poller'.items)
    BY <2>2, <2>3 DEF Started
  <2>5. SpeedDue' = 0
    BY <2>2, <2>4 DEF Started, SpeedDue
  <2>6. now <= Oldest + 2 * DiscoverTimeout + 3 * MaxLag
    BY <1>0, <1>1, <1>3, <1>4, <1>5
  <2> QED
    BY <1>0, <1>2, <2>1, <2>5, <2>6 DEF Waiting
<1> QED
  BY <1>6, <1>7


\* The other steps that leave the raw socket alone.
LEMMA WaitStep ==
    ASSUME StateInv, DueInv, FirstInv, [Next]_vars, "SPEED" \in Blocks[1], ~Lossy,
           inbox # <<>>, UNCHANGED inbox, Waiting
    PROVE  Waiting'
<1>0. HeardWaits /\ ThreadInv /\ ClockInv /\ ItemsInv
  BY DEF StateInv, ThreadInv
<1>1. /\ now \in Nat /\ wakeBy \in Nat /\ Oldest \in Nat /\ Oldest <= now /\ Unread \in Nat
      /\ Unread >= 4 * Fast /\ Unread >= RetrySleep /\ Head(inbox) = inbox[1]
      /\ Fast \in Nat /\ MaxLag \in Nat /\ RetrySleep \in Nat
      /\ pc \in Blocking => now <= wakeBy + MaxLag
  BY WaitFacts, UnreadFacts, Durations
<1>2. discovered => /\ DidsLast \in Nat /\ DidsLast <= 4 * Fast + 4 * MaxLag
                    /\ SpeedDue \in Nat /\ (pc # "poll" => SpeedDue > 0)
  BY WaitFacts
<1>3. Oldest' = Oldest
  BY DEF Oldest
<1>4. UNCHANGED poller => DidsLast' = DidsLast /\ SpeedDue' = SpeedDue
  BY DEF DidsLast, PolledDids, Others, SinceItem, SpeedDue
<1>5. AnswerNext => now <= Oldest + MaxLag
  <2>1. AnswerNext => Oldest >= now - MaxLag
    BY <1>1 DEF AnswerNext, Oldest
  <2> QED
    BY <1>1, <2>1
<1>6. ASSUME UNCHANGED <<pc, wakeBy, now, poller, discovered>>
      PROVE  Waiting'
  BY <1>3, <1>4, <1>6 DEF Waiting
<1>7. ASSUME pc' \in {"done", "stopped"}
      PROVE  Waiting'
  BY <1>7 DEF Waiting
<1>8. CASE LoopTop
  <2>1. /\ pc = "top" /\ UNCHANGED <<now, poller, discovered>>
        /\ \/ discovered /\ pc' = "poll"
           \/ ~discovered /\ pc' = "discover"
    BY <1>8 DEF LoopTop
  <2>2. now <= Oldest + Unread + 5 * MaxLag
    BY <2>1 DEF Waiting
  <2>3. discovered => now <= Oldest + MaxLag + DidsLast /\ SpeedDue # 0
    BY <1>2, <2>1 DEF Waiting
  <2> QED
    BY <1>3, <1>4, <2>1, <2>2, <2>3 DEF Waiting
<1>9. CASE DiscoverFail
  <2>1. /\ wakeBy' = now + RetrySleep /\ pc' = "sleep" /\ AnswerNext
    BY <1>9 DEF DiscoverFail, GivesUp
  <2>2. now + RetrySleep <= Oldest + MaxLag + RetrySleep
    BY <1>1, <1>5, <2>1
  <2> QED
    BY <1>3, <2>1, <2>2 DEF Waiting
<1>10. CASE Wake
  <2>1. pc = "sleep" /\ pc' = "top" /\ UNCHANGED <<now, discovered>> /\ ~discovered
    BY <1>0, <1>10 DEF Wake, return, ThreadInv
  <2>2. wakeBy <= Oldest + MaxLag + RetrySleep /\ now <= wakeBy + MaxLag
    BY <1>1, <2>1 DEF Waiting, Blocking
  <2>3. now <= Oldest + Unread + 5 * MaxLag
    BY <1>1, <2>2
  <2> QED
    BY <1>3, <2>1, <2>3 DEF Waiting
<1>11. CASE PollIdle
  <2>1. /\ pc = "poll" /\ pc' = "idle" /\ UNCHANGED <<now, poller, discovered>>
        /\ DueItems(poller, loopNow) = {} /\ loopNow \in Nat /\ discovered
    BY <1>0, <1>11 DEF PollIdle, ClockInv, ThreadInv
  <2>2. 1 \in DOMAIN poller.items /\ poller.items[1].due \in Nat
    BY <1>0, <2>1, FirstFacts, ItemFacts DEF ItemsInv
  <2>3. SpeedDue > 0
    BY <2>1, <2>2 DEF DueItems, SpeedDue
  <2> QED
    BY <1>3, <1>4, <2>1, <2>3 DEF Waiting
<1>12. CASE IdleEnd
  <2>1. pc = "idle" /\ pc' = "publish" /\ UNCHANGED <<now, poller, discovered>>
    BY <1>12 DEF IdleEnd, return
  <2> QED
    BY <1>3, <1>4, <2>1 DEF Waiting
<1>13. CASE Publish
  <2>1. pc = "publish" /\ pc' = "top" /\ UNCHANGED <<now, poller, discovered>> /\ discovered
    BY <1>0, <1>13 DEF Publish, ThreadInv
  <2>2. now <= Oldest + MaxLag + DidsLast
    BY <1>2, <2>1 DEF Waiting
  <2>3. now <= Oldest + Unread + 5 * MaxLag
    BY <1>1, <1>2, <2>1, <2>2
  <2> QED
    BY <1>3, <1>4, <2>1, <2>2, <2>3 DEF Waiting
<1>14. CASE Advance
  <2>1. /\ UNCHANGED <<pc, wakeBy, poller, discovered>> /\ now' = now + 1
        /\ pc \in Blocking
        /\ pc \in RawCalls => now < Oldest + MaxLag
    BY <1>1, <1>14 DEF Advance, Blocking, RawCalls, IsoCalls, Oldest
  <2>2. pc \in {"discover", "query"} => now + 1 <= Oldest + Unread + 5 * MaxLag
    BY <1>1, <2>1 DEF RawCalls
  <2>3. pc = "idle" /\ discovered => now + 1 <= Oldest + MaxLag + DidsLast
    BY <1>1, <1>2, <2>1 DEF RawCalls
  <2> QED
    BY <1>3, <1>4, <2>1, <2>2, <2>3 DEF Waiting, Blocking, RawCalls, IsoCalls
<1>15. CASE Probes \/ DiscoveryEnds
  BY <1>15, WaitDiscovers
<1>16. CASE PollRequest
  BY <1>16, WaitPolls
<1>17. CASE QueryAnswer \/ QueryFail \/ PollDidReply \/ PollDidFail
  BY <1>17, WaitEnds
<1>18. CASE LoopExit \/ StopJoined
  BY <1>7, <1>18 DEF LoopExit, StopJoined
<1>19. CASE onTelltales
  <2>1. inbox' = Tail(inbox) /\ inbox \in Seq(Broadcasts) /\ Len(inbox) \in Nat
    BY <1>0, <1>19, TelltalesFacts DEF StateInv, LampsInv
  <2>2. Len(inbox') = Len(inbox) - 1
    BY <2>1
  <2> QED
    BY <2>1, <2>2
<1>20. CASE Stop
  BY <1>6, <1>20 DEF Stop
<1>21. ASSUME NEW kind \in Records, BmsReplies(kind)
       PROVE  UNCHANGED <<pc, wakeBy, now, poller, discovered>>
  BY <1>21 DEF BmsReplies
<1>22. ASSUME NEW lit \in SUBSET Lamps, Broadcast(lit)
       PROVE  UNCHANGED <<pc, wakeBy, now, poller, discovered>>
  BY <1>22 DEF Broadcast
<1>23. ASSUME NEW ecus \in Movers, Moves(ecus)
       PROVE  UNCHANGED <<pc, wakeBy, now, poller, discovered>>
  BY <1>23 DEF Moves
<1>24. CASE UNCHANGED vars
  BY <1>6, <1>24
<1>25. CASE DiscoverNextBlock
  <2>1. pc = "discover" /\ pc' = "discover" /\ AnswerNext
    BY <1>25, NextBlockFacts
  <2>2. now <= Oldest + Unread + 5 * MaxLag
    BY <1>1, <1>5, <2>1
  <2>3. UNCHANGED now
    BY <1>25, NextBlockFacts
  <2> QED
    BY <1>3, <2>1, <2>2, <2>3 DEF Waiting
<1> QED
  BY <1>6, <1>8, <1>9, <1>10, <1>11, <1>12, <1>13, <1>14, <1>15, <1>16, <1>17, <1>18,
     <1>19, <1>20, <1>21, <1>22, <1>23, <1>24, <1>25, Steps

\* A broadcast is read, and the next one came no earlier.
LEMMA WaitReads ==
    ASSUME StateInv, FirstInv, "SPEED" \in Blocks[1], ~Lossy, Waiting, onTelltales
    PROVE  /\ now <= Oldest + Unread + 5 * MaxLag
           /\ inbox' # <<>> => Waiting'
<1>0. /\ HeardWaits /\ ThreadInv /\ inbox # <<>> /\ pc \in RawCalls /\ inbox' = Tail(inbox)
      /\ UNCHANGED <<now, poller, discovered>>
      /\ \/ pc = "idle" /\ pc' = "publish"
         \/ pc # "idle" /\ UNCHANGED <<pc, wakeBy>>
  BY TelltalesFacts DEF StateInv, ThreadInv
<1>1. /\ now \in Nat /\ Oldest \in Nat /\ Unread \in Nat /\ Unread >= 4 * Fast
      /\ Fast \in Nat /\ MaxLag \in Nat
  BY <1>0, WaitFacts, UnreadFacts, Durations
<1>2. discovered => /\ DidsLast \in Nat /\ DidsLast <= 4 * Fast + 4 * MaxLag
                    /\ SpeedDue \in Nat /\ (pc # "poll" => SpeedDue > 0)
  BY WaitFacts
<1>3. DidsLast' = DidsLast /\ SpeedDue' = SpeedDue
  BY <1>0 DEF DidsLast, PolledDids, Others, SinceItem, SpeedDue
<1>4. pc = "idle" => now <= Oldest + MaxLag + DidsLast /\ discovered
  BY <1>0, <1>2 DEF Waiting, ThreadInv
<1>5. now <= Oldest + Unread + 5 * MaxLag
  <2>1. CASE pc = "idle"
    BY <1>1, <1>2, <1>4, <2>1
  <2>2. CASE pc \in {"discover", "query"}
    BY <2>2 DEF Waiting
  <2> QED
    BY <1>0, <2>1, <2>2 DEF RawCalls
<1>6. ASSUME inbox' # <<>>
      PROVE  Oldest' \in Nat /\ Oldest <= Oldest'
  <2>1. /\ inbox \in Seq(Broadcasts) /\ Len(inbox) \in Nat
        /\ \A i, j \in 1 .. Len(inbox) : i <= j => inbox[i].at <= inbox[j].at
    BY DEF StateInv, LampsInv
  <2>2. /\ Tail(inbox) \in Seq(Broadcasts) /\ Len(Tail(inbox)) = Len(inbox) - 1
    BY <1>0, <2>1
  <2>3. Len(inbox) >= 2
    BY <1>0, <1>6, <2>1, <2>2
  <2>4. inbox'[1] = inbox[2]
    BY <1>0, <2>1, <2>2, <2>3
  <2>5. 1 \in 1 .. Len(inbox) /\ 2 \in 1 .. Len(inbox) /\ inbox[2] \in Broadcasts
    BY <2>1, <2>3
  <2> QED
    BY <2>1, <2>4, <2>5 DEF Oldest, Broadcasts
<1>7. ASSUME inbox' # <<>>
      PROVE  Waiting'
  <2>1. Oldest' \in Nat /\ Oldest <= Oldest'
    BY <1>6, <1>7
  <2>2. CASE pc = "idle" /\ pc' = "publish"
    <3>1. now <= Oldest' + MaxLag + DidsLast
      BY <1>1, <1>2, <1>4, <2>1, <2>2
    <3> QED
      BY <1>0, <1>3, <2>2, <3>1 DEF Waiting
  <2>3. CASE pc \in {"discover", "query"} /\ pc' = pc
    <3> DEFINE t == Oldest'
    <3>1. t \in Nat /\ Oldest <= t
      BY <2>1
    <3> HIDE DEF t
    <3>2. now <= t + Unread + 5 * MaxLag
      BY <1>1, <1>5, <3>1
    <3> QED
      BY <1>0, <2>3, <3>2 DEF Waiting, t
  <2> QED
    BY <1>0, <2>2, <2>3 DEF RawCalls
<1> QED
  BY <1>5, <1>7

\* The first broadcast to wait has not waited yet.
LEMMA WaitBegins ==
    ASSUME StateInv, FirstInv, "SPEED" \in Blocks[1],
           NEW lit \in SUBSET Lamps, Broadcast(lit), inbox = <<>>
    PROVE  Waiting'
<1>0. /\ UNCHANGED <<now, wakeBy, pc, discovered, poller>> /\ ThreadInv
      /\ inbox' = <<[lit |-> lit, at |-> now]>>
  BY DEF Broadcast, StateInv
<1>1. Oldest' = now /\ DidsLast' = DidsLast /\ SpeedDue' = SpeedDue
  BY <1>0 DEF Oldest, DidsLast, PolledDids, Others, SinceItem, SpeedDue
<1>2. /\ now \in Nat /\ wakeBy \in Nat /\ Unread \in Nat /\ Fast \in Nat /\ MaxLag \in Nat
      /\ DiscoverTimeout \in Nat /\ RetrySleep \in Nat
      /\ discovered => DidsLast \in Nat
      /\ pc = "pollDid" => DidsLast >= Fast + MaxLag
  BY WaitFacts, UnreadFacts, Durations
<1>3. /\ pc \in {"probePack", "probeAssist"} => wakeBy <= now + DiscoverTimeout
      /\ pc = "sleep" => wakeBy <= now + RetrySleep
      /\ pc = "pollDid" => wakeBy <= now + Fast
  BY DEF StateInv, CallInv
<1>4. /\ now <= now + Unread + 5 * MaxLag
      /\ now <= now + 2 * DiscoverTimeout + 3 * MaxLag
      /\ discovered => now <= now + MaxLag + DidsLast
  BY <1>2
<1>5. pc = "pollDid" => wakeBy <= now + DidsLast
  <2>1. pc = "pollDid" => discovered
    BY <1>0 DEF ThreadInv
  <2> QED
    BY <1>2, <1>3, <2>1
<1>6. /\ pc = "probePack" => wakeBy <= now + MaxLag + DiscoverTimeout
      /\ pc = "probeAssist" => wakeBy <= now + 2 * MaxLag + 2 * DiscoverTimeout
      /\ pc = "sleep" => wakeBy <= now + MaxLag + RetrySleep
  BY <1>2, <1>3
<1> QED
  BY <1>0, <1>1, <1>4, <1>5, <1>6 DEF Waiting


LEMMA StaleStep ==
    StateInv /\ DueInv /\ FirstInv /\ StaleInv /\ [Next]_vars => StaleInv'
<1> SUFFICES ASSUME StateInv, DueInv, FirstInv, StaleInv, [Next]_vars,
                    "SPEED" \in Blocks[1], ~Lossy
             PROVE  /\ lampsSeen' >= 0 => lampsSeen' <= lampsAt' + Unread + 5 * MaxLag
                    /\ inbox' # <<>> => Waiting'
  BY DEF StaleInv
<1>0. HeardWaits
  BY DEF StateInv, ThreadInv
<1>1. ASSUME UNCHANGED lampVars
      PROVE  /\ lampsSeen' >= 0 => lampsSeen' <= lampsAt' + Unread + 5 * MaxLag
             /\ inbox' # <<>> => Waiting'
  <2>1. lampsSeen' >= 0 => lampsSeen' <= lampsAt' + Unread + 5 * MaxLag
    BY <1>1 DEF StaleInv
  <2>2. inbox # <<>> => Waiting'
    BY <1>1, WaitStep DEF StaleInv
  <2> QED
    BY <1>1, <2>1, <2>2
<1>2. CASE onTelltales
  <2>1. inbox # <<>> /\ lampsSeen' = now /\ lampsAt' = Oldest
    BY <1>0, <1>2, TelltalesFacts, WaitFacts DEF Oldest
  <2>2. Waiting
    BY <2>1 DEF StaleInv
  <2> QED
    BY <1>2, <2>1, <2>2, WaitReads
<1>3. ASSUME NEW lit \in SUBSET Lamps, Broadcast(lit)
      PROVE  /\ lampsSeen' >= 0 => lampsSeen' <= lampsAt' + Unread + 5 * MaxLag
             /\ inbox' # <<>> => Waiting'
  <2>1. /\ UNCHANGED <<now, wakeBy, pc, discovered, poller, lampsSeen, lampsAt>>
        /\ inbox' = Append(inbox, [lit |-> lit, at |-> now])
    BY <1>3 DEF Broadcast
  <2>2. lampsSeen' >= 0 => lampsSeen' <= lampsAt' + Unread + 5 * MaxLag
    BY <2>1 DEF StaleInv
  <2>3. CASE inbox = <<>>
    BY <1>3, <2>2, <2>3, WaitBegins
  <2>4. CASE inbox # <<>>
    <3>1. Waiting
      BY <2>4 DEF StaleInv
    <3>2. inbox'[1] = inbox[1]
      <4>1. inbox \in Seq(Broadcasts) /\ Len(inbox) \in Nat
        BY DEF StateInv, LampsInv
      <4>2. 1 \in 1 .. Len(inbox)
        BY <2>4, <4>1
      <4> QED
        BY <2>1, <4>1, <4>2
    <3>3. Oldest' = Oldest /\ DidsLast' = DidsLast /\ SpeedDue' = SpeedDue
      BY <2>1, <3>2 DEF Oldest, DidsLast, PolledDids, Others, SinceItem, SpeedDue
    <3>4. Waiting'
      BY <2>1, <3>1, <3>3 DEF Waiting
    <3> QED
      BY <2>2, <3>4
  <2> QED
    BY <2>3, <2>4
<1>4. CASE StopJoined
  <2>1. UNCHANGED <<lampsSeen, lampsAt>> /\ inbox' = <<>>
    BY <1>4 DEF StopJoined
  <2> QED
    BY <2>1 DEF StaleInv
<1>5. CASE Probes \/ DiscoveryEnds
  BY <1>0, <1>1, <1>5, ProbeFacts, DiscoveryFacts
<1>6. CASE PollRequest
  BY <1>0, <1>1, <1>6, RequestsFacts
<1>7. CASE QueryAnswer \/ QueryFail \/ PollDidReply \/ PollDidFail
  BY <1>1, <1>7, PollEnds
<1>8. CASE LoopTop \/ LoopExit \/ Wake \/ DiscoverFail
  BY <1>1, <1>8 DEF LoopTop, LoopExit, Wake, DiscoverFail
<1>9. CASE PollIdle \/ IdleEnd \/ Publish
  BY <1>1, <1>9 DEF PollIdle, IdleEnd, Publish
<1>10. CASE Stop \/ Advance
  BY <1>1, <1>10 DEF Stop, Advance
<1>11. ASSUME NEW kind \in Records, BmsReplies(kind)
       PROVE  UNCHANGED lampVars
  BY <1>11 DEF BmsReplies
<1>12. ASSUME NEW ecus \in Movers, Moves(ecus)
       PROVE  UNCHANGED lampVars
  BY <1>12 DEF Moves
<1>13. CASE UNCHANGED vars
  BY <1>1, <1>13
<1>14. CASE DiscoverNextBlock
  BY <1>1, <1>14, NextBlockFacts
<1> QED
  BY <1>1, <1>2, <1>3, <1>4, <1>5, <1>6, <1>7, <1>8, <1>9, <1>10, <1>11, <1>12, <1>13, <1>14, Steps

\* A lamp that only the vehicle broadcasts is handed over from the lamps read last.
LEMMA BroadcastLamps ==
    ASSUME NEW vals, NEW t, (vehicleState(vals, t).lamps \cap Lamps) \ MirroredLamps # {}
    PROVE  lampsSeen >= 0 /\ t - lampsSeen <= LampWindow
<1>1. PICK lamp \in vehicleState(vals, t).lamps : lamp \notin MirroredLamps
  OBVIOUS
<1>2. \A did \in Dids : Calls[did] \subseteq MirroredLamps
  BY EcuAssumption
<1>3. \A did \in Dids : mirrored(did) \subseteq MirroredLamps
  BY <1>2 DEF mirrored
<1>4. lamp \notin Mirrors(vals, t)
  BY <1>1, <1>3 DEF Mirrors
<1>5. lamp \in Lit(t)
  BY <1>1, <1>4, HandedState
<1> QED
  BY <1>5 DEF Lit

\* LampsRecent: as long as the bus works and the speed is polled, no lamp is handed over
\* as lit longer after its broadcast than the raw socket goes unread and the window,
\* whatever the thread was doing when the broadcast came.
THEOREM LampsAreRecent == Spec => LampsRecent
<1>1. Init => AskedInv /\ StaleInv
  <2>1. Init => pc = "top" /\ inbox = <<>> /\ lampsSeen = -1
    BY DEF Init, Never
  <2> QED
    BY <2>1 DEF AskedInv, StaleInv
<1>2. /\ StateInv /\ DueInv /\ FirstInv /\ AskedInv /\ StaleInv /\ [Next]_vars
      => AskedInv' /\ StaleInv'
  BY AskedStep, StaleStep
<1>3. Spec => [](AskedInv /\ StaleInv)
  BY StateInvariance, RobinInvariance, <1>1, <1>2, PTL DEF Spec
<1> DEFINE Step == /\ HandsOver /\ (published'.lamps \cap Lamps) \ MirroredLamps # {}
                   /\ ~Lossy /\ "SPEED" \in Blocks[1]
                   => now - lampsAt <= Unread + LampWindow + DiscoverTimeout + 6 * MaxLag
<1>4. StateInv /\ AskedInv /\ StaleInv /\ [Next]_vars => [Step]_vars
  <2> SUFFICES ASSUME StateInv, AskedInv, StaleInv, [Next]_vars, HandsOver,
                      (published'.lamps \cap Lamps) \ MirroredLamps # {},
                      ~Lossy, "SPEED" \in Blocks[1]
               PROVE  now - lampsAt <= Unread + LampWindow + DiscoverTimeout + 6 * MaxLag
    OBVIOUS
  <2>1. /\ ThreadInv /\ now \in Nat /\ loopNow \in Nat /\ wakeBy \in Nat
        /\ lampsSeen \in Nat \cup {Never} /\ lampsAt \in Nat \cup {Never}
        /\ lampsSeen >= 0 => lampsAt >= 0
    BY DEF StateInv, ClockInv, CallInv, LampsInv
  <2>2. /\ Unread \in Nat /\ MaxLag \in Nat /\ LampWindow \in Nat /\ DiscoverTimeout \in Nat
    BY UnreadFacts, Durations
  <2>3. lampsSeen >= 0
           => /\ lampsSeen \in Nat /\ lampsAt \in Nat
              /\ lampsSeen <= lampsAt + Unread + 5 * MaxLag
    BY <2>1 DEF StaleInv, Never
  <2>4. CASE pc = "publish" /\ published' = vehicleState(values, now)
    <3>1. lampsSeen >= 0 /\ now - lampsSeen <= LampWindow
      BY <2>4, BroadcastLamps
    <3> QED
      BY <2>1, <2>2, <2>3, <3>1
  <2>5. CASE DiscoverFail /\ pc = "discover" /\ published' = vehicleState(NoValues, loopNow)
    <3>1. lampsSeen >= 0 /\ loopNow - lampsSeen <= LampWindow
      BY <2>5, BroadcastLamps
    <3>2. wakeBy <= loopNow + DiscoverTimeout /\ now <= wakeBy + MaxLag
      BY <2>5 DEF DiscoverFail, AskedInv, StateInv, CallInv, Blocking, RawCalls
    <3> QED
      BY <2>1, <2>2, <2>3, <3>1, <3>2
  <2> QED
    BY <2>1, <2>4, <2>5, HandsOverFacts
<1> HIDE DEF Step
<1>5. Spec => [][Step]_vars
  BY StateInvariance, <1>3, <1>4, PTL DEF Spec
<1> QED
  BY <1>5 DEF Step, LampsRecent
=============================================================================
