------------------------------- MODULE MCMux --------------------------------
(***************************************************************************)
(* The parts of libcloak-mux below a session, one at a time: part says     *)
(* which one a behaviour is about, and the state of the others does not    *)
(* move.  Conn is extended, the others are instances.                      *)
(***************************************************************************)
EXTENDS Conn

VARIABLES
    part,
    tab, hash, map, res, want,                        \* StreamTable
    kind, q, held, nextByte, qres, qwant,             \* Queues
    bucket, meter, now, waiter, moved, billed, since  \* Valve

tvars == <<tab, hash, map, res, want>>
qvars == <<kind, q, held, nextByte, qres, qwant>>
vvars == <<bucket, meter, now, waiter, moved, billed, since>>
muxvars == <<part, tvars, qvars, vvars, vars>>

(* Frames the peer of a connection sends, under either framing. *)
Frame(op, fin, len, masked) ==
    [op |-> op, fin |-> fin, len |-> len, masked |-> masked]

TlsFrames == {Frame("data", TRUE, len, FALSE) : len \in {1, 4}}

(* Fragments, control frames and one malformed frame, masked as a client   *)
(* masks them.                                                             *)
ClientFrames ==
    {Frame("data", TRUE, 2, TRUE), Frame("data", FALSE, 1, TRUE),
     Frame("cont", FALSE, 1, TRUE), Frame("cont", TRUE, 1, TRUE),
     Frame("ping", TRUE, 1, TRUE), Frame("pong", TRUE, 0, TRUE),
     Frame("close", TRUE, 1, TRUE), Frame("bad", TRUE, 0, TRUE)}

(* What a server sends to a client, one frame masked by mistake. *)
ServerFrames ==
    {Frame("data", TRUE, 2, FALSE), Frame("ping", TRUE, 1, FALSE),
     Frame("close", TRUE, 0, FALSE), Frame("data", TRUE, 0, TRUE)}

PeerFrames == [tls |-> TlsFrames, ws_server |-> ClientFrames,
               ws_client |-> ServerFrames]

(* Hashes of the stream table: all in one slot, one slot each, and two     *)
(* slots for all, which wrap around the end of the table.                  *)
StreamIds == 1 .. 5
Table == INSTANCE StreamTable WITH
    Keys <- StreamIds, MinCap <- 4, MaxCap <- 8,
    Hashes <- {[k \in StreamIds |-> 3], [k \in StreamIds |-> 7 - k],
               [k \in StreamIds |-> ((4 * k) % 8) + 3]}

Queue == INSTANCE Queues WITH
    PREFIX <- 2, Base <- 6, MaxCap <- 6, res <- qres, want <- qwant

Pace == INSTANCE Valve WITH
    VALVE_MILLI <- 4, Rates <- {0, 1, 3}, MaxBytes <- 3, MaxNow <- 8,
    MaxMoved <- 5

(* Conn again: the one that is extended carries the messages of a browser, *)
(* this one is paced, fails, and drains what its owner sends.  The buffers *)
(* are the same, so that one statement of the invariants serves for both.  *)
Flow == INSTANCE Conn WITH
    OutLens <- {2, 3}, MaxIn <- 2, MaxOut <- 2, Limited <- TRUE,
    Refills <- {2}, PeerFails <- TRUE, TimersFail <- TRUE

ASSUME Queue!QueuesAssumption /\ Pace!ValveAssumption

-----------------------------------------------------------------------------
(* The state of a part the behaviour is not about. *)
N == << >>
NoTable == tab = N /\ hash = N /\ map = N /\ res = N /\ want = N
NoQueue == /\ kind = N /\ q = N /\ held = N /\ nextByte = N
           /\ qres = N /\ qwant = N
NoPace == /\ bucket = N /\ meter = N /\ now = N /\ waiter = N /\ moved = N
          /\ billed = N /\ since = N

MuxInit ==
    /\ part \in {"table", "queue", "valve", "conn", "flow"}
    /\ IF part = "flow" THEN Flow!Init ELSE Init
    /\ ws.framing \in IF part = "flow" THEN {"tls", "ws_client"} ELSE {"ws_server"}
    /\ IF part = "table" THEN Table!TInit ELSE NoTable
    /\ IF part = "queue" THEN Queue!QInit ELSE NoQueue
    /\ IF part = "valve" THEN Pace!Init ELSE NoPace

MuxNext ==
    \/ part = "table" /\ Table!TNext /\ UNCHANGED <<part, qvars, vvars, vars>>
    \/ part = "queue" /\ Queue!QNext /\ UNCHANGED <<part, tvars, vvars, vars>>
    \/ part = "valve" /\ Pace!Next /\ UNCHANGED <<part, tvars, qvars, vars>>
    \/ part = "conn" /\ Next /\ UNCHANGED <<part, tvars, qvars, vvars>>
    \/ part = "flow" /\ Flow!Next /\ UNCHANGED <<part, tvars, qvars, vvars>>

MuxSpec == MuxInit /\ [][MuxNext]_muxvars

-----------------------------------------------------------------------------
(* The data structures are what they stand for: the stream table is the    *)
(* map from stream ids to their states, through tombstones and growth, the *)
(* byte queue and the message queue are first-in first-out, through        *)
(* wrap-around and refusals (strmtab.c, bytequeue.c, msgqueue.c): see      *)
(* StreamTable and Queues.                                                 *)
StructuresAgree == /\ part = "table" => Table!TableIsMap
                   /\ part = "queue" => Queue!QueuesAreFifo

(* A direction of a valve bills every byte once and keeps its rate         *)
(* (valve.c): see Valve.                                                   *)
RateIsKept == part = "valve" => Pace!BilledOnce /\ Pace!RateIsKept

(* It tells a refused caller a wait that is long enough, and short.        *)
WaitIsRight ==
    [][part = "valve" => Pace!WaitIsRight]_muxvars
=============================================================================
