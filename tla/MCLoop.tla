------------------------------- MODULE MCLoop -------------------------------
(***************************************************************************)
(* What the event loop must keep serving: its descriptors, its timers, a   *)
(* connection, and a session, which lives on timers.  part says which one  *)
(* a behaviour is about, and the state of the others does not move.        *)
(* Session is extended, the others are instances.                          *)
(***************************************************************************)
EXTENDS Session

VARIABLES
    part,
    watchers, watcher, dead_list, stopped, ready, batch, pc,
    running,                                          \* Reactor
    heap, heap_count, slots, slots_count, free_list, sift, now, pass,
    issued,                                           \* TimerHeap
    broken, want_writable, read_paused, interest, rx_resume_timer, send_q,
    inbound, acc, ws, sock, flight, peer, kbuf, wire, edge, tokens, calls,
    accepted, taken, delivered, msg, conn_closed      \* Conn

rvars == <<watchers, watcher, dead_list, stopped, ready, batch, pc, running>>
hvars == <<heap, heap_count, slots, slots_count, free_list, sift, now, pass,
           issued>>
cvars == <<broken, want_writable, read_paused, interest, rx_resume_timer, send_q,
           inbound, acc, ws, sock, flight, peer, kbuf, wire, edge, tokens, calls,
           accepted, taken, delivered, msg, conn_closed>>
loopvars == <<part, rvars, hvars, cvars, vars>>

Loop == INSTANCE Reactor WITH
    Fds <- 1 .. 3, MaxWatchers <- 3, MaxEvents <- 2

Heap == INSTANCE TimerHeap WITH
    TIMER_MAX_SLOTS <- 2, TIMER_GEN_MAX <- 1, Delays <- {0, 1}, MaxNow <- 2,
    timers <- heap, timer_count <- heap_count

(* The peer sends short records and ones that are too long. *)
Frame(len) == [op |-> "data", fin |-> TRUE, len |-> len, masked |-> FALSE]
Link == INSTANCE Conn WITH
    Framings <- {"tls"}, MaxFrameLen <- 3, SendQueueCap <- 5, SockCap <- 4,
    Chunk <- 2, InFrames <- [tls |-> {Frame(1), Frame(4)}],
    OutLens <- {1, 3, 4}, MaxIn <- 2, MaxOut <- 2, Limited <- TRUE,
    Refills <- {2}, PeerFails <- TRUE, TimersFail <- TRUE,
    stack <- calls, closed <- conn_closed

ASSUME SessionAssumption /\ Loop!ReactorAssumption /\ Heap!TimerAssumption

-----------------------------------------------------------------------------
LoopInit == /\ part \in {"loop", "timers", "session", "conn"}
            /\ Loop!Init /\ Heap!Init /\ Init /\ Link!Init

OnLoop(A) == part = "loop" /\ A /\ UNCHANGED <<part, hvars, cvars, vars>>
OnTimers(A) == part = "timers" /\ A /\ UNCHANGED <<part, rvars, cvars, vars>>
OnSession(A) == part = "session" /\ A /\ UNCHANGED <<part, rvars, hvars, cvars>>

OnConn(A) == part = "conn" /\ A /\ UNCHANGED <<part, rvars, hvars, vars>>

LoopNext == \/ OnLoop(Loop!Next) \/ OnTimers(Heap!Next) \/ OnSession(Next)
            \/ OnConn(Link!Next)

(* The fairness of the four modules; a behaviour is about one of them. *)
LoopSpec ==
    /\ LoopInit /\ [][LoopNext]_loopvars
    /\ WF_loopvars(\/ OnLoop(Loop!Turn) \/ OnTimers(Heap!Sifts)
                   \/ OnSession(SinkReturns) \/ OnConn(Link!Code))
    /\ WF_loopvars(\/ OnTimers(Heap!FireTop \/ Heap!EndPass)
                   \/ OnSession(Returns) \/ OnConn(Link!RxResume))
    /\ WF_loopvars(OnTimers(Heap!BeginPass) \/ OnConn(Link!Deliver))
    /\ WF_loopvars(OnTimers(Heap!Tick) \/ OnConn(Link!Arrives))
    /\ SF_loopvars(OnLoop(Loop!EndTimers) \/ OnSession(InactivityFires))
    /\ SF_loopvars(OnLoop(Loop!CallbackReturns) \/ OnSession(DeferredFires))
    /\ SF_loopvars(OnSession(SweepFires))

-----------------------------------------------------------------------------
(* Every edge is answered and every timer ends (cloak_reactor_run_once,    *)
(* process_expired_timers), and a session closes, reports and sweeps       *)
(* (session.c), and both directions of a connection move (conn.c): see     *)
(* Reactor, TimerHeap, Session and Conn.  The timers' handles are numbered. *)
Handle(i) == [gen |-> (i - 1) \div 2, low |-> (i % 2) + 1]
Waits(i) == \/ part = "loop" /\ i <= 3 /\ Loop!Edged(i)
            \/ part = "timers" /\ Heap!Due(Handle(i))
            \/ part = "session" /\ i <= 3 /\ Duty(i)
            \/ part = "conn" /\ i <= 3 /\ Link!Duty(i)
Served(i) == \/ part = "loop" /\ i <= 3 /\ Loop!Answered(i)
             \/ part = "timers" /\ Heap!Ended(Handle(i))
             \/ part = "session" /\ i <= 3 /\ Fulfilled(i)
             \/ part = "conn" /\ i <= 3 /\ Link!Fulfilled(i)
EventsAreServed == \A i \in 1 .. 4 : Waits(i) ~> Served(i)
=============================================================================
