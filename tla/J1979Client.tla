---------------------------- MODULE J1979Client -----------------------------
(***************************************************************************)
(* libobd/src/J1979Client.cpp over CanChannel.cpp: functional requests,    *)
(* which every ECU of the vehicle may answer, with the rule that the first *)
(* responder is the only one listened to until the next discovery.         *)
(*                                                                         *)
(* The caller discovers, queries, idles, closes and opens in any order,    *)
(* except that like both plugins it queries only while the discovery it    *)
(* made last has succeeded.  The ECUs (external) answer what they support  *)
(* late or never; the socket keeps what arrives until it is read.          *)
(***************************************************************************)
EXTENDS Integers, Sequences, FiniteSets

CONSTANTS
    Ecus,         \* the response IDs that are in use
    Values,       \* PIDs that a caller queries
    Advert,       \* per ECU: what each of its supported-PIDs blocks advertises
    Timeout,      \* timeoutMs of every request
    MaxLag,       \* how late the thread may return from poll()
    MaxTime,      \* bound of the model: the clock stops here
    MaxRequests,  \* bound of the model: requests made
    MaxQueue      \* bound of the model: frames in the socket

\* The PIDs that ask for a block of supported PIDs, in the order of the chain.
SupportedPids == <<"PID_00", "PID_20", "PID_40", "PID_60", "PID_80", "PID_A0", "PID_C0">>
BlockPids == {SupportedPids[b] : b \in 1 .. 7}
Pids == BlockPids \cup Values

NoEcu == "no ECU"

\* What the constants must satisfy; Bench assumes it.
ClientConstants ==
    /\ IsFiniteSet(Ecus) /\ NoEcu \notin Ecus
    /\ Values \cap (BlockPids \cup {"none"}) = {}
    /\ DOMAIN Advert = Ecus
    /\ \A e \in Ecus : Advert[e] \in Seq(SUBSET Values) /\ Len(Advert[e]) \in 1 .. 7
    /\ Timeout \in Nat \ {0}
    /\ MaxLag \in Nat
    /\ {MaxTime, MaxRequests, MaxQueue} \subseteq Nat

VARIABLES
    now,        \* steady clock
    isOpen,     \* m_fd is a bound socket
    queue,      \* frames in the socket that nobody has read
    op,         \* the client call under way: none, discover or query
    asked,      \* the PID of each request so far; the last is the current one
    deadline,   \* when the current request ends
    wakeBy,     \* when the receive() it waits in ends
    block,      \* discovery: the block asked for
    found,      \* discovery: what the blocks so far advertised
    primary,    \* m_primaryEcu
    supported,  \* m_supported
    discovered  \* what the last discover() returned, as its caller keeps it

\* The vehicle, and what an observer would record.
VARIABLES
    owed,       \* requests the ECUs have received and not answered
    givenUp,    \* requests that were given up without an answer
    sources,    \* ECUs whose answers were used since discovery last began
    session     \* the last block's request if its own answer was used; 0 if not

callVars == <<op, asked, deadline, wakeBy, block, found>>
ecuVars  == <<primary, supported, discovered>>
seenVars == <<givenUp, sources, session>>
vars == <<now, isOpen, queue, callVars, ecuVars, owed, seenVars>>

Init ==
    /\ now = 0
    /\ isOpen = FALSE
    /\ queue = <<>>
    /\ op = "none"
    /\ asked = <<>>
    /\ deadline = 0
    /\ wakeBy = 0
    /\ block = 0
    /\ found = {}
    /\ primary = NoEcu
    /\ supported = {}
    /\ discovered = FALSE
    /\ owed = {}
    /\ givenUp = {}
    /\ sources = {}
    /\ session = 0

Current == Len(asked)
Waiting == op # "none"

\* A frame that is no answer to use: a broadcast, or one of an ECU that parses as
\* no positive mode-01 answer.
Noise == [ecu |-> NoEcu, pid |-> "none", req |-> 0, complete |-> FALSE]

\* Does ecu answer a request for pid?
Answers(ecu, pid) ==
    \E b \in 1 .. Len(Advert[ecu]) : pid = SupportedPids[b] \/ pid \in Advert[ecu][b]
-----------------------------------------------------------------------------
(***************************************************************************)
(* request(): send, then read until the answer or the deadline.            *)
(***************************************************************************)

\* CanChannel::send puts the request on the bus and request() starts to wait.
send(o, pid) ==
    /\ isOpen
    /\ op' = o
    /\ asked' = Append(asked, pid)
    /\ deadline' = now + Timeout
    /\ wakeBy' = now + Timeout
    /\ owed' = owed \cup {[ecu |-> e, pid |-> pid, req |-> Len(asked) + 1] :
                             e \in {d \in Ecus : Answers(d, pid)}}

\* The call that made the request returns.
return ==
    /\ op' = "none"
    /\ block' = 0
    /\ found' = {}
    /\ UNCHANGED <<asked, deadline, wakeBy>>

\* Mutant: what was found is added to what was known.
endDiscoveryAdds(ok, pids) ==
    /\ supported' = IF ok THEN supported \cup pids ELSE supported
    /\ discovered' = ok

\* discover() returns ok, having found pids.
endDiscovery(ok, pids) ==
    /\ supported' = IF ok THEN pids ELSE supported
    /\ discovered' = ok

\* request() returns false.  A later block that fails ends discovery with what
\* was found; anything else makes the call fail.
requestFails ==
    /\ return
    /\ IF op = "discover" THEN endDiscovery(block > 1, found)
                          ELSE UNCHANGED <<supported, discovered>>
    /\ UNCHANGED <<primary, sources, session, owed>>

\* Mutants: any ECU's answer will do; an answer for any PID will do.
matchesAnyEcu(f) == f.pid = asked[Current]
matchesAnyPid(f) == f.pid # "none" /\ (primary = NoEcu \/ primary = f.ecu)

\* The frame answers the current request, and comes from the ECU to listen to.
matches(f) ==
    /\ f.pid = asked[Current]
    /\ primary = NoEcu \/ primary = f.ecu

\* receive() returns a frame that is not the answer: back to the top of the loop,
\* which gives up when the deadline has passed.
skip ==
    /\ Waiting
    /\ queue # <<>>
    /\ ~matches(Head(queue))
    /\ queue' = Tail(queue)
    /\ \/ /\ now < deadline
          /\ wakeBy' = deadline
          /\ UNCHANGED <<op, asked, deadline, block, found, ecuVars, owed, seenVars>>
       \/ /\ now >= deadline
          /\ givenUp' = givenUp \cup {Current}
          /\ requestFails
    /\ UNCHANGED <<now, isOpen>>

\* receive() returns false: nothing came in time, or the socket failed.
receiveFails ==
    /\ Waiting
    /\ givenUp' = givenUp \cup {Current}
    /\ requestFails
    /\ UNCHANGED <<now, isOpen, queue>>

\* The answer of f is used, and its ECU is the one to listen to.
use(f) ==
    /\ queue' = Tail(queue)
    /\ primary' = f.ecu
    /\ sources' = sources \cup {f.ecu}
-----------------------------------------------------------------------------
(***************************************************************************)
(* The calls.                                                              *)
(***************************************************************************)
open(ok) ==
    /\ ~Waiting
    /\ isOpen' = ok
    /\ queue' = <<>>
    /\ UNCHANGED <<now, callVars, ecuVars, owed, seenVars>>

close ==
    /\ ~Waiting
    /\ isOpen' = FALSE
    /\ queue' = <<>>
    /\ UNCHANGED <<now, callVars, ecuVars, owed, seenVars>>

\* idle() reads one frame and drops it, or hands a broadcast to the sink.
idle ==
    /\ ~Waiting
    /\ queue # <<>>
    /\ queue' = Tail(queue)
    /\ UNCHANGED <<now, isOpen, callVars, ecuVars, owed, seenVars>>

\* discover() forgets the ECU and asks for the first block; a request that cannot
\* be sent makes it fail with the ECU forgotten.
discover ==
    /\ ~Waiting
    /\ Current < MaxRequests
    /\ primary' = NoEcu
    /\ sources' = {}
    /\ session' = 0
    /\ \/ send("discover", SupportedPids[1]) /\ block' = 1
          /\ UNCHANGED discovered
       \/ UNCHANGED <<op, asked, deadline, wakeBy, block, owed>> /\ discovered' = FALSE
    /\ UNCHANGED <<now, isOpen, queue, found, supported, givenUp>>

\* The PIDs of a block's bitmap, those of the chain left out, and its last bit.
supportedPidsFrom(f)   == Advert[f.ecu][block]
nextBlockAdvertised(f) == block < Len(Advert[f.ecu])

\* A block arrives.  A complete one that announces another is followed by the
\* request for that one; if it cannot be sent discovery ends here, as it does with
\* the last block.  One cut short counts as no answer.
discoverBlock ==
    /\ op = "discover"
    /\ queue # <<>>
    /\ matches(Head(queue))
    /\ LET f   == Head(queue)
           all == found \cup supportedPidsFrom(f)
       IN  /\ use(f)
           /\ session' = IF f.req = Current THEN Current ELSE 0
           /\ \/ /\ f.complete /\ nextBlockAdvertised(f)
                 /\ Current < MaxRequests
                 /\ found' = all
                 /\ block' = block + 1
                 /\ send("discover", SupportedPids[block + 1])
                 /\ UNCHANGED <<supported, discovered>>
              \/ /\ return
                 /\ endDiscovery(f.complete \/ block > 1, IF f.complete THEN all ELSE found)
                 /\ UNCHANGED owed
    /\ UNCHANGED <<now, isOpen, givenUp>>

query(pid) ==
    /\ ~Waiting
    /\ discovered
    /\ Current < MaxRequests
    /\ send("query", pid)
    /\ UNCHANGED <<now, isOpen, queue, block, found, ecuVars, seenVars>>

\* The answer arrives; query() returns its value, or false if it is too short.
queryAnswer ==
    /\ op = "query"
    /\ queue # <<>>
    /\ matches(Head(queue))
    /\ use(Head(queue))
    /\ return
    /\ UNCHANGED <<now, isOpen, supported, discovered, owed, givenUp, session>>
-----------------------------------------------------------------------------
(***************************************************************************)
(* The vehicle and the clock.                                              *)
(***************************************************************************)

\* A frame passes the socket's filter.
Arrives(f) == queue' = IF isOpen THEN Append(queue, f) ELSE queue

\* An ECU answers a request it has received, in their order; those it passes over
\* it never answers.
EcuAnswers(o, complete) ==
    /\ Len(queue) < MaxQueue
    /\ Arrives([ecu |-> o.ecu, pid |-> o.pid, req |-> o.req, complete |-> complete])
    /\ owed' = {p \in owed : p.ecu = o.ecu => p.req > o.req}
    /\ UNCHANGED <<now, isOpen, callVars, ecuVars, seenVars>>

NoiseArrives ==
    /\ Len(queue) < MaxQueue
    /\ Arrives(Noise)
    /\ UNCHANGED <<now, isOpen, callVars, ecuVars, owed, seenVars>>

\* A thread that waits returns from poll() at most MaxLag after its timeout.
Advance ==
    /\ now < MaxTime
    /\ Waiting => now < wakeBy + MaxLag
    /\ now' = now + 1
    /\ UNCHANGED <<isOpen, queue, callVars, ecuVars, owed, seenVars>>

Next ==
    \/ \E ok \in BOOLEAN : open(ok)
    \/ close \/ idle
    \/ discover \/ discoverBlock
    \/ (\E pid \in Values : query(pid)) \/ queryAnswer
    \/ skip \/ receiveFails
    \/ \E o \in owed, complete \in BOOLEAN : EcuAnswers(o, complete)
    \/ NoiseArrives \/ Advance

Spec == Init /\ [][Next]_vars
-----------------------------------------------------------------------------
(***************************************************************************)
(* Properties.                                                             *)
(***************************************************************************)
Frames == [ecu: Ecus \cup {NoEcu}, pid: Pids \cup {"none"}, req: Nat, complete: BOOLEAN]

\* Every variable has its type, and a frame with a PID comes from an ECU.
TypeOK ==
    /\ now \in Nat
    /\ isOpen \in BOOLEAN
    /\ queue \in Seq(Frames)
    /\ \A i \in DOMAIN queue : queue[i].pid # "none" => queue[i].ecu \in Ecus
    /\ op \in {"none", "discover", "query"}
    /\ asked \in Seq(Pids)
    /\ deadline \in Nat
    /\ wakeBy \in Nat
    /\ block \in 0 .. 7
    /\ found \subseteq Values
    /\ primary \in Ecus \cup {NoEcu}
    /\ supported \subseteq Values
    /\ discovered \in BOOLEAN
    /\ owed \subseteq [ecu: Ecus, pid: Pids, req: Nat]
    /\ givenUp \subseteq Nat
    /\ sources \subseteq Ecus
    /\ session \in Nat

\* Since discovery last began every answer used, of blocks and of values, came
\* from one ECU, though each request is answered by all of them: what is advertised
\* and what is measured belong together.
OneEcu == sources \subseteq {primary}

\* A request ends by its deadline (plus the thread's own delay), whatever flood of
\* other frames it has to read on the way.
RequestBounded == Waiting => now <= deadline + MaxLag

\* What a discovery that ends well reports is what its one ECU advertises in the
\* first blocks of its chain: no mixture with another ECU's or an earlier
\* discovery's blocks, though late answers are in the socket.
DiscoveryCoherent ==
    [][supported' # supported =>
          \E n \in DOMAIN Advert[primary'] :
             supported' = UNION {Advert[primary'][b] : b \in 1 .. n}]_vars

\* The first waiting frame, taken for the current request's answer, is behind by at most
\* the requests for its PID that were given up in the session.
SamePid(reqs) == {r \in reqs : asked[r] = asked[Current]}
BehindByLost == Cardinality(SamePid((Head(queue).req + 1) .. Current))
                   <= Cardinality(SamePid({r \in givenUp : r > session}))

\* After a discovery whose last block was answered in time a query may use a late
\* answer to an earlier request for the same PID, but only as far behind as requests
\* for that PID were given up since: while none was, each answer is the one to the
\* very request, though the other ECUs' answers and those of earlier sessions are
\* in the socket.
LagIsPaidFor == [][queryAnswer /\ session > 0 => BehindByLost]_vars
=============================================================================
