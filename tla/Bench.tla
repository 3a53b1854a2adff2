------------------------------- MODULE Bench --------------------------------
(***************************************************************************)
(* The programs that read a CAN bus beside the daemon, one per behaviour:  *)
(* libobd's J1979 client on a vehicle with several ECUs, can-replay in the *)
(* place of a recorded vehicle, and contract-dump on the contract bus.     *)
(***************************************************************************)
EXTENDS ContractDump, Sequences

CONSTANTS Ecus, Values, Advert, Timeout, MaxLag, MaxTime, MaxRequests, MaxQueue
CONSTANTS Recorded, Window, MaxLog

VARIABLES
    part,       \* the program that runs
    now, isOpen, queue, op, asked, deadline, wakeBy, block, found, primary, supported,
    discovered, owed, givenUp, sources, session,
    recording, log, waiting, listening, used, answers, replayed

C == INSTANCE J1979Client
R == INSTANCE Replay WITH Values <- Recorded

ASSUME BenchAssumption == C!ClientConstants /\ R!ReplayConstants

clientVars == <<now, isOpen, queue, op, asked, deadline, wakeBy, block, found, primary,
                supported, discovered, owed, givenUp, sources, session>>
replayVars == <<recording, log, waiting, listening, used, answers, replayed>>
benchVars  == <<part, clientVars, replayVars, vars>>

\* What does not run stays in an initial state.
BenchInit ==
    /\ part \in {"client", "replay", "dump"}
    /\ C!Init
    /\ R!ReplayInit
    /\ IF part = "dump" THEN Init ELSE InitOf(TRUE)

BenchNext ==
    /\ \/ part = "client" /\ C!Next /\ UNCHANGED <<replayVars, vars>>
       \/ part = "replay" /\ R!ReplayNext /\ UNCHANGED <<clientVars, vars>>
       \/ part = "dump" /\ Next /\ UNCHANGED <<clientVars, replayVars>>
    /\ UNCHANGED part

BenchSpec == BenchInit /\ [][BenchNext]_benchVars
-----------------------------------------------------------------------------
\* The client's variables have their types, it listens to one ECU from discovery to
\* discovery, and a request ends by its deadline, whatever arrives (see J1979Client).
ClientInv == C!TypeOK /\ C!OneEcu /\ C!RequestBounded

\* A discovery reports one ECU's blocks and no mixture (see J1979Client).
DiscoveryCoherent == C!DiscoveryCoherent

\* A late answer is used only as far behind as requests were given up (see
\* J1979Client).
LagIsPaidFor == C!LagIsPaidFor

\* can-replay gives back the recorded session of one ECU (see Replay).
SessionReplays == R!SessionReplays
=============================================================================
