----------------------------- MODULE DgramRelay -----------------------------
(***************************************************************************)
(* cloak_dgram_relay_t (libcloak-mux/src/dgram_relay.c): one unordered     *)
(* stream spliced with one datagram socket.  It pauses and resumes as      *)
(* StreamRelay does, but moves whole datagrams: it holds at most one that  *)
(* the socket refused, asks whether a whole frame fits before it reads,    *)
(* and may drop what is too long.                                          *)
(*                                                                         *)
(*   rel    the relay; reading says that its read loop is in progress      *)
(*   sock   the socket and epoll: datagrams to read, a pending error, room *)
(*          to send, and whether the descriptor is on epoll's ready list   *)
(*   strm   the stream: datagrams to read, closed (or the next datagram is *)
(*          too long for pending), retired                                 *)
(*   pool   send queues by connection, broken, what overran a queue, and   *)
(*          the tokens of the user's bucket                                *)
(*   seen   arrived so far at the socket and at the stream, and frames of  *)
(*          other streams                                                  *)
(***************************************************************************)
EXTENDS Integers, FiniteSets, FiniteSetsExt

CONSTANTS Conns, SendCap,       \* the pool, and the cap of a send queue
          DataCost, CloseCost,  \* what a frame takes of it
          BucketCap,            \* capacity of the bucket
          RoomCap,              \* the kernel's send buffer, in datagrams
          MaxIn, MaxStream, MaxOther   \* bounds: what arrives and is sent

VARIABLES rel, sock, strm, pool, seen
vars == <<rel, sock, strm, pool, seen>>

State == [rel |-> rel, sock |-> sock, strm |-> strm, pool |-> pool,
          seen |-> seen]
Becomes(x) == \E y \in {x} : /\ rel' = y.rel /\ sock' = y.sock
                             /\ strm' = y.strm /\ pool' = y.pool
                             /\ seen' = y.seen

(* Op applied to the value v. *)
With(v, Op(_)) == CHOOSE r \in {Op(w) : w \in {v}} : TRUE

Finishing(r) == r.done \/ r.finish_timer
Live(r) == r.phase = "running" /\ ~Finishing(r)

-----------------------------------------------------------------------------
(* The socket and epoll. *)

Readable(s) == s.in > 0 \/ s.err
Writable(s) == s.room > 0 \/ s.err
Fires(s, mask) == \/ "R" \in mask /\ Readable(s)
                  \/ "W" \in mask /\ Writable(s)
                  \/ s.err

DesiredInterest(r) ==
    (IF ~r.fd_read_paused /\ ~r.stream_ended THEN {"R"} ELSE {})
        \cup (IF r.pending > 0 THEN {"W"} ELSE {})

(* sync_interest: registering again asks epoll for a fresh edge. *)
SyncInterest(x) ==
    LET want == DesiredInterest(x.rel)
        idle == want = {} /\ x.rel.interest = {}
    IN [x EXCEPT !.rel.interest = want,
                 !.sock.listed = @ \/ (~idle /\ Fires(x.sock, want))]

-----------------------------------------------------------------------------
(* The pool. *)

MinFree(p) == Min({SendCap - p.q[c] : c \in Conns})
(* Mutant: the pool's best connection is asked. *)
PoolBoundBest(p) == Max({SendCap - p.q[c] : c \in Conns}) < DataCost
PoolBound(p) == MinFree(p) < DataCost
RateBound(p) == ~PoolBound(p) /\ p.limited /\ p.tokens <= 0

(* dgram_relay_can_accept_frame. *)
CanAcceptFrame(p) == ~PoolBound(p) /\ ~RateBound(p)

Spent(p) == IF p.limited /\ p.tokens > -BucketCap THEN p.tokens - 1 ELSE p.tokens

(* What may become of the pool when a frame is sent: a connection takes it *)
(* at random, the kernel at once or later, or its queue overruns.          *)
Sends(p, cost, kind) ==
    UNION {IF cost > SendCap - p.q[c]
           THEN {[p EXCEPT !.broken = TRUE, !.overflow = kind]}
           ELSE {[p EXCEPT !.q[c] = n, !.tokens = Spent(p)] :
                    n \in {0, p.q[c] + cost}} : c \in Conns}

-----------------------------------------------------------------------------
(* pump_stream_to_fd. *)

Total(x) == x.rel.pending + x.strm.rq
Moved(x) == IF x.sock.err THEN 0 ELSE Min({Total(x), x.sock.room})
EndSeen(x) == x.rel.stream_ended \/ (x.strm.closed /\ Moved(x) = Total(x))

(* The relay ends: the socket refuses for good, or all is sent after the   *)
(* stream's end.                                                           *)
PumpFinishes(x) == \/ x.sock.err /\ Total(x) > 0
                   \/ EndSeen(x) /\ Moved(x) = Total(x)

(* flush_pending and cloak_stream_read in turn; one datagram is kept when  *)
(* the socket has no room, and one too long for the route is dropped.      *)
PumpOut(x) ==
    With(Total(x) - Moved(x), LAMBDA left :
       [x EXCEPT !.sock.room = @ - Moved(x),
                 !.rel.stream_ended = EndSeen(x),
                 !.rel.pending = IF left > 0 THEN 1 ELSE 0,
                 !.strm.rq = IF left > 0 THEN left - 1 ELSE 0])

(* dgram_relay_teardown: what it may leave.  The closing frame asks for no *)
(* budget.                                                                 *)
Teardown(x, fire) ==
    LET sent == IF x.strm.retired \/ x.pool.broken THEN {x.pool}
                ELSE Sends(x.pool, CloseCost, "closing")
    IN {[x EXCEPT !.rel = [@ EXCEPT !.done = TRUE, !.finish_timer = FALSE,
                                    !.rate_timer = FALSE, !.interest = {},
                                    !.pending = 0, !.reading = FALSE,
                                    !.told = @ + (IF fire THEN 1 ELSE 0)],
                  !.sock.listed = FALSE, !.strm.retired = TRUE, !.pool = p] :
           p \in sent}

(* A last pump, then teardown. *)
Finish(x) == UNION {Teardown(y, TRUE) : y \in {PumpOut(x)}}

(* dgram_relay_arm_rate_timer leaves an armed timer alone and may fail     *)
(* otherwise, which ends the relay.                                        *)
Arm(x) == {[x EXCEPT !.rel.rate_timer = TRUE]}
             \cup (IF x.rel.rate_timer THEN {} ELSE Teardown(x, TRUE))

(* Mutant: room without tokens resumes nobody. *)
ResumePoolOnly(x) ==
    IF CanAcceptFrame(x.pool)
    THEN {SyncInterest([x EXCEPT !.rel.fd_read_paused = FALSE,
                                 !.rel.reading = TRUE])}
    ELSE {x}
(* A paused read looks again: wait for the pool, hand over to the timer,   *)
(* or read on.                                                             *)
Resume(x) ==
    CASE RateBound(x.pool) -> Arm(x)
      [] PoolBound(x.pool) -> {x}
      [] OTHER -> {SyncInterest([x EXCEPT !.rel.fd_read_paused = FALSE,
                                          !.rel.reading = TRUE])}

-----------------------------------------------------------------------------
(* The relay's entry points; while the read loop runs nothing else does. *)

Idle == ~rel.reading
Into(S) == \E x \in S : Becomes(x)

(* cloak_dgram_relay_start; a full pool refuses and changes nothing.  A    *)
(* first pump that finishes defers teardown to a timer, or fails.          *)
Start ==
    /\ rel.phase = "none" /\ ~PoolBound(pool)
    /\ LET x == [State EXCEPT !.rel.phase = "running", !.rel.interest = {"R"},
                              !.sock.listed = Fires(sock, {"R"})]
           failed == [PumpOut(x) EXCEPT !.rel.phase = "failed"]
       IN IF PumpFinishes(x)
          THEN \/ Becomes([PumpOut(x) EXCEPT !.rel.finish_timer = TRUE])
               \/ Into(Teardown(failed, FALSE))
          ELSE Becomes(SyncInterest(PumpOut(x)))

(* dgram_relay_on_event: the writable part, then the read loop. *)
OnEvent ==
    /\ Idle /\ Live(rel) /\ sock.listed
    /\ LET evR == sock.err \/ ("R" \in rel.interest /\ Readable(sock))
           evW == "W" \in rel.interest /\ Writable(sock)
       IN \E x \in {[State EXCEPT !.sock.listed = FALSE]} :
          \E out \in {IF evW THEN PumpOut(x) ELSE x} :
             IF evW /\ PumpFinishes(x) THEN Into(Finish(x))
             ELSE IF evR THEN Becomes([out EXCEPT !.rel.reading = TRUE])
             ELSE Becomes(SyncInterest(out))

(* An event for a relay that waits for its finish timer is ignored. *)
OnEventFinishing ==
    /\ Idle /\ rel.finish_timer /\ sock.listed
    /\ Becomes([State EXCEPT !.sock.listed = FALSE])

(* pump_fd_to_stream, one turn of its loop: the budget is exhausted. *)
ReadPause ==
    /\ rel.reading /\ ~CanAcceptFrame(pool)
    /\ LET paused == SyncInterest([State EXCEPT !.rel.fd_read_paused = TRUE,
                                                !.rel.reading = FALSE])
       IN IF ~RateBound(pool) THEN Becomes(paused)
          ELSE \/ Becomes([paused EXCEPT !.rel.rate_timer = TRUE])
               \/ ~rel.rate_timer /\ Into(Finish(State))

(* A datagram becomes a frame; one that is empty or too long is dropped; a *)
(* frame that cannot be sent ends the relay.                               *)
ReadDatagram ==
    /\ rel.reading /\ CanAcceptFrame(pool) /\ sock.in > 0 /\ ~sock.err
    /\ LET x == [State EXCEPT !.sock.in = @ - 1]
       IN \/ Becomes(x)
          \/ \E p \in IF pool.broken THEN {pool}
                       ELSE Sends(pool, DataCost, "data") :
                IF p.broken THEN Into(Finish([x EXCEPT !.pool = p]))
                ELSE Becomes([x EXCEPT !.pool = p])

(* Nothing to read. *)
ReadEnd ==
    /\ rel.reading /\ CanAcceptFrame(pool) /\ ~Readable(sock)
    /\ Becomes(SyncInterest([State EXCEPT !.rel.reading = FALSE]))

(* The socket failed. *)
ReadFail == rel.reading /\ CanAcceptFrame(pool) /\ sock.err /\ Into(Finish(State))

(* dgram_relay_on_rate_timer. *)
OnRateTimer ==
    /\ Idle /\ rel.rate_timer
    /\ LET fired == [State EXCEPT !.rel.rate_timer = FALSE]
       IN IF ~Live(rel) \/ ~rel.fd_read_paused THEN Becomes(fired)
          ELSE Into(Resume(fired))

(* dgram_relay_on_finish_timer, cloak_dgram_relay_stop. *)
OnFinishTimer == Idle /\ rel.finish_timer /\ Into(Teardown(State, TRUE))
Stop == /\ Idle /\ rel.phase = "running" /\ ~rel.done
        /\ Into(Teardown(State, FALSE))

(* cloak_dgram_relay_notify_stream_data, cloak_dgram_relay_notify_writable. *)
NotifyStreamData(x) ==
    IF ~Live(x.rel) THEN {x}
    ELSE IF PumpFinishes(x) THEN Finish(x) ELSE {SyncInterest(y) : y \in {PumpOut(x)}}
NotifyWritable(x) ==
    IF ~Live(x.rel) \/ ~x.rel.fd_read_paused THEN {x} ELSE Resume(x)

-----------------------------------------------------------------------------
(* The socket's peer, the tunnel's peer, the pool and the clock. *)

SockBecomes(s) ==
    /\ Idle /\ ~rel.done
    /\ sock' = [s EXCEPT !.listed = @ \/ (rel.phase = "running"
                                             /\ Fires(s, rel.interest))]
    /\ UNCHANGED <<rel, strm, pool>>

SockData == /\ seen.in < MaxIn /\ ~sock.err
            /\ seen' = [seen EXCEPT !.in = @ + 1]
            /\ SockBecomes([sock EXCEPT !.in = @ + 1])
SockError == /\ ~sock.err /\ UNCHANGED seen
             /\ SockBecomes([sock EXCEPT !.err = TRUE])
SockDrains == /\ sock.room < RoomCap /\ UNCHANGED seen
              /\ SockBecomes([sock EXCEPT !.room = RoomCap])

StreamData ==
    /\ Idle /\ ~strm.retired /\ ~strm.closed /\ seen.stream < MaxStream
    /\ \E x \in {[State EXCEPT !.strm.rq = @ + 1, !.seen.stream = @ + 1]} :
          Into(NotifyStreamData(x))
StreamClosing ==
    /\ Idle /\ ~strm.retired /\ ~strm.closed
    /\ \E r \in BOOLEAN : Into(NotifyStreamData(
          [State EXCEPT !.strm.closed = TRUE, !.strm.retired = r]))

OtherSend ==
    /\ Idle /\ ~pool.broken /\ seen.others < MaxOther /\ ~PoolBound(pool)
    /\ \E c \in Conns : Becomes(
          [State EXCEPT !.pool.q[c] = @ + DataCost, !.pool.tokens = Spent(pool),
                        !.seen.others = @ + 1])
PoolDrains(c) ==
    /\ Idle /\ ~pool.broken /\ pool.q[c] > 0
    /\ Into(NotifyWritable([State EXCEPT !.pool.q[c] = 0]))
PoolBreaks == Idle /\ ~pool.broken /\ Becomes([State EXCEPT !.pool.broken = TRUE])
Tick == /\ Idle /\ pool.limited /\ pool.tokens < BucketCap
        /\ Becomes([State EXCEPT !.pool.tokens = @ + 1])

-----------------------------------------------------------------------------
Init ==
    /\ rel = [phase |-> "none", fd_read_paused |-> FALSE, stream_ended |-> FALSE,
              pending |-> 0, rate_timer |-> FALSE, finish_timer |-> FALSE,
              done |-> FALSE, told |-> 0, interest |-> {}, reading |-> FALSE]
    /\ sock = [in |-> 0, err |-> FALSE, room |-> RoomCap, listed |-> FALSE]
    /\ strm = [rq |-> 0, closed |-> FALSE, retired |-> FALSE]
    /\ \E limited \in BOOLEAN :
          pool = [q |-> [c \in Conns |-> 0], broken |-> FALSE,
                  overflow |-> "none", limited |-> limited,
                  tokens |-> BucketCap]
    /\ seen = [in |-> 0, stream |-> 0, others |-> 0]

ReadLoop == ReadPause \/ ReadDatagram \/ ReadEnd \/ ReadFail

Next ==
    \/ Start \/ OnEvent \/ OnEventFinishing \/ ReadLoop
    \/ OnRateTimer \/ OnFinishTimer \/ Stop
    \/ SockData \/ SockError \/ SockDrains \/ StreamData \/ StreamClosing
    \/ OtherSend \/ PoolBreaks \/ Tick \/ \E c \in Conns : PoolDrains(c)

-----------------------------------------------------------------------------
(* Properties. *)

(* A frame the relay sends fits the connection it lands on. *)
DataFitsPool == pool.overflow # "data"

(* A running relay waits only for what will come: a pause ends by its      *)
(* timer or by a queue that drains, and what it wants to hear of and the   *)
(* socket has to report is on the ready list.                              *)
NoStall ==
    Live(rel) /\ Idle =>
        /\ rel.fd_read_paused =>
              rel.rate_timer \/ \E c \in Conns : pool.q[c] > 0
        /\ rel.interest = DesiredInterest(rel)
        /\ ("R" \in rel.interest /\ Readable(sock))
              \/ ("W" \in rel.interest /\ Writable(sock)) => sock.listed

(* A finished relay has no timer and no event left, and its owner was told *)
(* at most once, and never before start returned.                          *)
FinishedIsInert ==
    /\ rel.done => ~rel.rate_timer /\ ~rel.finish_timer /\ ~sock.listed
    /\ rel.told <= (IF rel.done /\ rel.phase = "running" THEN 1 ELSE 0)

(* What there still is to move, and what should end the relay. *)
Owes == rel.phase = "running" /\ ~rel.done
           /\ (sock.in > 0 \/ sock.err \/ strm.closed \/ Total(State) > 0)
=============================================================================
