---------------------------- MODULE StreamRelay ----------------------------
(***************************************************************************)
(* cloak_stream_relay_t (libcloak-mux/src/stream_relay.c): one ordered     *)
(* stream spliced with one socket, inside an edge-triggered epoll loop,    *)
(* over a pool of connections it shares with other streams and a token     *)
(* bucket it shares with the other streams of its user.                    *)
(*                                                                         *)
(* Data is counted in payload units: one unit is one full frame.  A data   *)
(* frame takes DataCost of a connection's send queue, a closing frame      *)
(* CloseCost.  The relay's two pumps are loops inside a handler: pc names  *)
(* the loop in progress, and while pc # "idle" nothing else runs.          *)
(***************************************************************************)
EXTENDS Integers, FiniteSets, FiniteSetsExt

CONSTANTS Conns,        \* the connections of the session's pool
          SendCap,      \* conn_send_queue_cap
          DataCost,     \* cloak_stream_relay_frame_cost
          CloseCost,    \* envelope of a closing frame
          BufCap,       \* buf_cap, the capacity of to_fd
          Chunk,        \* STREAM_RELAY_CHUNK, in payload units
          BucketCap,    \* capacity of the tx bucket
          RoomCap,      \* the kernel's send buffer for the fd
          MaxIn,        \* bound: units that arrive on the fd
          MaxStream,    \* bound: units that arrive on the stream
          MaxOther      \* bound: frames other streams send

ASSUME RelayAssumption ==
    /\ IsFiniteSet(Conns) /\ Conns # {}
    /\ {SendCap, DataCost, CloseCost, BufCap, Chunk, BucketCap, RoomCap}
            \subseteq Nat \ {0}
    /\ CloseCost <= DataCost
    /\ {MaxIn, MaxStream, MaxOther} \subseteq Nat

VARIABLES
    phase,        \* "none", "running" or "failed": what start returned
    fd_read_paused, stream_ended, to_fd, rate_timer, finish_timer, done,
    on_done,      \* history: calls of on_done
    interest,     \* the registered event mask
    onlist,       \* epoll has the fd on its ready list
    fd,           \* kernel side of the fd: unread units, end of file, error,
                  \* room in the send buffer, units accepted so far
    stream,       \* the stream: readable units, closed, retired
    q,            \* q[c]: bytes in the send queue of connection c
    pool_broken,  \* the switchboard is broken
    overflow,     \* history: what overran a send queue
    bucket,       \* the user's tx bucket: is there a limit, tokens left
    others,       \* frames sent by other streams
    arrived,      \* units that arrived so far on the fd and on the stream
    violated,     \* history: the stream was retired by a protocol violation
    pc, left      \* the loop in progress, frames left of the current write

relay == <<phase, fd_read_paused, stream_ended, to_fd, rate_timer,
           finish_timer, done, on_done, interest, onlist>>
pool == <<q, pool_broken, overflow, bucket>>
env == <<others, arrived, violated>>
vars == <<relay, fd, stream, pool, env, pc, left>>

Smaller(a, b) == IF a <= b THEN a ELSE b
MinFree(qq) == Min({SendCap - qq[c] : c \in Conns})
Finishing == done \/ finish_timer
Live == phase = "running" /\ ~Finishing

TypeOK ==
    /\ phase \in {"none", "running", "failed"}
    /\ {fd_read_paused, stream_ended, rate_timer, finish_timer, done, onlist,
        pool_broken, violated} \subseteq BOOLEAN
    /\ to_fd \in 0..BufCap /\ on_done \in Nat /\ interest \subseteq {"R", "W"}
    /\ fd \in [in : 0..MaxIn, eof : BOOLEAN, err : BOOLEAN, room : 0..RoomCap,
               out : 0..MaxStream]
    /\ stream \in [rq : 0..MaxStream, closed : BOOLEAN, retired : BOOLEAN]
    /\ q \in [Conns -> 0..SendCap]
    /\ overflow \in {"none", "data", "closing"}
    /\ bucket \in [limited : BOOLEAN, tokens : -BucketCap..BucketCap]
    /\ others \in 0..MaxOther
    /\ arrived \in [fd : 0..MaxIn, stream : 0..MaxStream]
    /\ pc \in {"idle", "read", "write"} /\ left \in 0..Chunk

Init ==
    /\ phase = "none" /\ fd_read_paused = FALSE /\ stream_ended = FALSE
    /\ to_fd = 0 /\ rate_timer = FALSE /\ finish_timer = FALSE /\ done = FALSE
    /\ on_done = 0 /\ interest = {} /\ onlist = FALSE
    /\ fd = [in |-> 0, eof |-> FALSE, err |-> FALSE, room |-> RoomCap,
             out |-> 0]
    /\ stream = [rq |-> 0, closed |-> FALSE, retired |-> FALSE]
    /\ q = [c \in Conns |-> 0] /\ pool_broken = FALSE /\ overflow = "none"
    /\ bucket \in [limited : BOOLEAN, tokens : {BucketCap}] /\ others = 0
    /\ arrived = [fd |-> 0, stream |-> 0] /\ violated = FALSE
    /\ pc = "idle" /\ left = 0

----------------------------------------------------------------------------
(* The socket and epoll. *)

Readable(f) == f.in > 0 \/ f.eof \/ f.err
Writable(f) == f.room > 0 \/ f.err

(* What the mask lets through; an error is reported whatever the mask. *)
Fires(f, mask) == \/ "R" \in mask /\ Readable(f)
                  \/ "W" \in mask /\ Writable(f)
                  \/ f.err

DesiredInterest ==
    (IF ~fd_read_paused' /\ ~stream_ended' THEN {"R"} ELSE {})
        \cup (IF to_fd' > 0 THEN {"W"} ELSE {})

(* sync_interest: re-registering puts the fd on the ready list if it is    *)
(* ready now; skipped only when the mask was and stays empty.  listed says *)
(* whether it is on the list already.                                      *)
SyncInterest(listed) ==
    /\ interest' = DesiredInterest
    /\ onlist' = (listed \/ (~(interest = {} /\ interest' = {})
                                /\ Fires(fd', interest')))

----------------------------------------------------------------------------
(* The pool. *)

(* Every frame sent is billed; debt stops at the bucket's capacity. *)
Spend ==
    bucket' = IF bucket.limited /\ bucket.tokens > -BucketCap
              THEN [bucket EXCEPT !.tokens = @ - 1] ELSE bucket

(* A frame of the given cost is handed to connection c.  The queue may     *)
(* flush to the kernel at once; a frame that does not fit breaks the       *)
(* connection, and with it the pool.                                       *)
SendFrame(qq, c, cost, kind) ==
    \/ /\ cost <= SendCap - qq[c]
       /\ \E queued \in {0, qq[c] + cost} : q' = [qq EXCEPT ![c] = queued]
       /\ Spend
       /\ UNCHANGED <<pool_broken, overflow>>
    \/ /\ cost > SendCap - qq[c]
       /\ q' = qq /\ pool_broken' = TRUE /\ overflow' = kind
       /\ UNCHANGED bucket

(* Frames the fullest connection can still take. *)
PoolFrames(qq) == MinFree(qq) \div DataCost
(* stream_relay_fd_read_budget: 0 when the pool or the bucket is exhausted, *)
(* and only the bucket asks for a timer.                                    *)
BucketDry == bucket.limited /\ bucket.tokens <= 0
RateBound(qq) == PoolFrames(qq) > 0 /\ BucketDry
PoolBound(qq) == PoolFrames(qq) = 0
Budget(qq) == LET most == Smaller(PoolFrames(qq), Chunk)
              IN  IF bucket.limited THEN Smaller(most, bucket.tokens) ELSE most

----------------------------------------------------------------------------
(* The two pumps. *)

(* pump_stream_to_fd on stream s: fill and drain alternate until neither   *)
(* moves, so what is left was refused by the kernel, up to BufCap of it in *)
(* to_fd.  The stream's end is seen once it is empty and to_fd has room.   *)
Pending(s) == to_fd + s.rq
Sent(s) == IF fd.err THEN 0 ELSE Smaller(Pending(s), fd.room)
Kept(s) == Smaller(Pending(s) - Sent(s), BufCap)
Unread(s) == Pending(s) - Sent(s) - Kept(s)
EndSeen(s) == stream_ended \/ (s.closed /\ Unread(s) = 0 /\ Kept(s) < BufCap)

(* Mutant: the relay finishes as soon as the stream is closed. *)
PumpFinishesEarly(s) == (fd.err /\ Pending(s) > 0) \/ s.closed
(* The pump returns -1: the socket is broken, or all the stream sent is out. *)
PumpFinishes(s) == (fd.err /\ Pending(s) > 0) \/ (EndSeen(s) /\ Kept(s) = 0)

PumpOut(s) ==
    /\ fd' = [fd EXCEPT !.room = @ - Sent(s), !.out = @ + Sent(s)]
    /\ stream_ended' = EndSeen(s)

CancelTimers == finish_timer' = FALSE /\ rate_timer' = FALSE

(* stream_relay_teardown; the stream's closing frame is sent by            *)
(* cloak_session_close_stream, which asks for no budget.                   *)
Teardown(s, fire, qq) ==
    /\ done' = TRUE /\ CancelTimers
    /\ interest' = {} /\ onlist' = FALSE /\ to_fd' = 0
    /\ stream' = [s EXCEPT !.retired = TRUE]
    /\ on_done' = on_done + (IF fire THEN 1 ELSE 0)
    /\ pc' = "idle" /\ left' = 0
    /\ UNCHANGED fd_read_paused
    /\ IF s.retired \/ pool_broken
       THEN q' = qq /\ UNCHANGED <<pool_broken, overflow, bucket>>
       ELSE \E c \in Conns : SendFrame(qq, c, CloseCost, "closing")

AfterPump(s) == [s EXCEPT !.rq = Unread(s)]

(* A last pump, then teardown. *)
Finish(s) == PumpOut(s) /\ Teardown(AfterPump(s), TRUE, q) /\ UNCHANGED phase

(* The pump moved bytes and the relay goes on. *)
Pumped(s) ==
    /\ ~PumpFinishes(s) /\ PumpOut(s)
    /\ to_fd' = Kept(s) /\ stream' = AfterPump(s)

(* cloak_stream_relay_notify_stream_data. *)
NotifyStreamData(s) ==
    \/ /\ ~Live
       /\ stream' = s
       /\ UNCHANGED <<relay, fd, pool, pc, left>>
    \/ Live /\ PumpFinishes(s) /\ Finish(s)
    \/ /\ Live /\ Pumped(s)
       /\ UNCHANGED <<phase, fd_read_paused, rate_timer, finish_timer, done,
                      on_done, pool, pc, left>>
       /\ SyncInterest(onlist)

(* arm_rate_timer leaves a pending timer alone; cloak_reactor_add_timer    *)
(* may fail at any time.                                                   *)
ArmFails == ~rate_timer

(* Only the pool changes. *)
DrainOnly(qq) ==
    /\ q' = qq
    /\ UNCHANGED <<relay, fd, stream, pool_broken, overflow, bucket, pc, left>>

(* The pool has room again but the bucket is dry: arm the rate timer. *)
HandOver(qq) ==
    \/ /\ rate_timer' = TRUE /\ q' = qq
       /\ UNCHANGED <<phase, fd_read_paused, stream_ended, to_fd, finish_timer,
                      done, on_done, interest, onlist, fd, stream, pool_broken,
                      overflow, bucket, pc, left>>
    \/ /\ ArmFails /\ Teardown(stream, TRUE, qq)
       /\ UNCHANGED <<phase, fd, stream_ended>>

(* cloak_stream_relay_notify_writable, the pool being qq: resume, hand the *)
(* pause over to the rate timer, or wait for another drain.                *)
NotifyWritable(qq) ==
    \/ (~Live \/ ~fd_read_paused \/ PoolBound(qq)) /\ DrainOnly(qq)
    \/ Live /\ fd_read_paused /\ RateBound(qq) /\ HandOver(qq)
    \/ /\ Live /\ fd_read_paused /\ ~PoolBound(qq) /\ ~RateBound(qq)
       /\ fd_read_paused' = FALSE /\ q' = qq
       /\ UNCHANGED <<to_fd, fd, stream_ended>> /\ SyncInterest(onlist)
       /\ UNCHANGED <<phase, rate_timer, finish_timer, done, on_done, stream,
                      pool_broken, overflow, bucket, pc, left>>

----------------------------------------------------------------------------
(* The relay's own entry points. *)

(* The first pump already finished: defer teardown to a zero-delay timer,  *)
(* or, if there is none, give the descriptor back and fail.                *)
StartEnded ==
    /\ PumpFinishes(stream) /\ PumpOut(stream)
    /\ \/ /\ finish_timer' = TRUE /\ phase' = "running"
          /\ to_fd' = Kept(stream) /\ stream' = AfterPump(stream)
          /\ interest' = {"R"} /\ onlist' = Fires(fd', {"R"})
          /\ UNCHANGED <<fd_read_paused, rate_timer, done, on_done, pool, pc,
                         left>>
       \/ /\ phase' = "failed" /\ Teardown(AfterPump(stream), FALSE, q)

(* cloak_stream_relay_start; a pool without room for one frame refuses     *)
(* (CLOAK_STREAM_RELAY_ERR_POOL_FULL) and changes nothing.                 *)
Start ==
    /\ phase = "none" /\ pc = "idle" /\ ~PoolBound(q)
    /\ \/ StartEnded
       \/ /\ Pumped(stream) /\ phase' = "running"
          /\ UNCHANGED <<fd_read_paused, rate_timer, finish_timer, done,
                         on_done, pool, pc, left>>
          /\ interest' = DesiredInterest /\ onlist' = Fires(fd', interest')
    /\ UNCHANGED env

(* The read loop is entered; the mask is synchronised when it ends. *)
EnterRead == pc' = "read" /\ onlist' = FALSE

(* stream_relay_on_event: the writable part, then the read loop.           *)
OnEvent ==
    /\ pc = "idle" /\ Live /\ onlist /\ Fires(fd, interest)
    /\ LET evR == fd.err \/ ("R" \in interest /\ Readable(fd))
           evW == "W" \in interest /\ Writable(fd)
       IN  \/ evW /\ PumpFinishes(stream) /\ Finish(stream)
           \/ /\ evW /\ Pumped(stream)
              /\ UNCHANGED <<phase, fd_read_paused, rate_timer, finish_timer,
                             done, on_done, pool, left>>
              /\ \/ evR /\ EnterRead /\ UNCHANGED interest
                 \/ ~evR /\ pc' = "idle" /\ SyncInterest(FALSE)
           \/ /\ ~evW /\ EnterRead
              /\ UNCHANGED <<phase, fd_read_paused, stream_ended, to_fd,
                             rate_timer, finish_timer, done, on_done, interest,
                             fd, stream, pool, left>>
    /\ UNCHANGED env

(* An event for a relay that waits for its finish timer is ignored. *)
OnEventFinishing ==
    /\ pc = "idle" /\ finish_timer /\ onlist
    /\ onlist' = FALSE
    /\ UNCHANGED <<phase, fd_read_paused, stream_ended, to_fd, rate_timer,
                   finish_timer, done, on_done, interest, fd, stream, pool,
                   env, pc, left>>

(* pump_fd_to_stream, one iteration: the budget is exhausted.  A pause by  *)
(* the bucket needs a timer; if there is none the relay finishes.          *)
ReadPause ==
    /\ pc = "read" /\ (PoolBound(q) \/ RateBound(q))
    /\ \/ /\ fd_read_paused' = TRUE /\ pc' = "idle"
          /\ rate_timer' = (rate_timer \/ RateBound(q))
          /\ UNCHANGED <<to_fd, fd, stream_ended>> /\ SyncInterest(onlist)
          /\ UNCHANGED <<phase, finish_timer, done, on_done, stream, pool,
                         left>>
       \/ RateBound(q) /\ ArmFails /\ Finish(stream)
    /\ UNCHANGED env

(* One iteration that reads: n units, which cloak_stream_write frames. *)
ReadBytes ==
    /\ pc = "read" /\ ~PoolBound(q) /\ ~RateBound(q)
    /\ fd.in > 0 /\ ~fd.err
    /\ LET n == Smaller(fd.in, Budget(q))
       IN  fd' = [fd EXCEPT !.in = @ - n] /\ left' = n
    /\ pc' = "write"
    /\ UNCHANGED <<relay, stream, pool, env>>

(* One frame of the write goes to a connection picked at random.           *)
WriteFrame ==
    /\ pc = "write" /\ left > 0 /\ ~pool_broken
    /\ \E c \in Conns : SendFrame(q, c, DataCost, "data")
    /\ left' = left - 1
    /\ UNCHANGED <<relay, fd, stream, env, pc>>

(* The write is done; the loop asks for a new budget. *)
WriteEnd ==
    /\ pc = "write" /\ left = 0 /\ ~pool_broken
    /\ pc' = "read"
    /\ UNCHANGED <<relay, fd, stream, pool, env, left>>

(* read returned EAGAIN. *)
ReadEnd ==
    /\ pc = "read" /\ ~PoolBound(q) /\ ~RateBound(q) /\ ~Readable(fd)
    /\ pc' = "idle"
    /\ UNCHANGED <<phase, fd_read_paused, rate_timer, finish_timer, done,
                   on_done, to_fd, stream_ended, fd, stream, pool, env, left>>
    /\ SyncInterest(onlist)

(* read returned 0 or an error, or a frame could not be sent. *)
ReadFail ==
    /\ \/ /\ pc = "read" /\ ~PoolBound(q) /\ ~RateBound(q)
          /\ fd.err \/ (fd.eof /\ fd.in = 0)
       \/ pc = "write" /\ pool_broken
    /\ Finish(stream)
    /\ UNCHANGED env

(* stream_relay_on_rate_timer. *)
OnRateTimer ==
    /\ pc = "idle" /\ rate_timer
    /\ \/ /\ ~Live \/ ~fd_read_paused \/ PoolBound(q)
          /\ rate_timer' = FALSE
          /\ UNCHANGED <<stream_ended, to_fd, fd_read_paused, done, on_done,
                         interest, onlist, fd, stream, pool, pc, left>>
       \/ /\ Live /\ fd_read_paused /\ RateBound(q)
          /\ \/ UNCHANGED <<relay, fd, stream, pool, pc, left>>
             \/ UNCHANGED <<fd, stream_ended>> /\ Teardown(stream, TRUE, q)
       \/ /\ Live /\ fd_read_paused /\ ~PoolBound(q) /\ ~RateBound(q)
          /\ rate_timer' = FALSE /\ fd_read_paused' = FALSE /\ pc' = "read"
          /\ UNCHANGED <<to_fd, fd, stream_ended>> /\ SyncInterest(onlist)
          /\ UNCHANGED <<done, on_done, stream, pool, left>>
    /\ UNCHANGED <<phase, finish_timer, env>>

(* stream_relay_on_finish_timer. *)
OnFinishTimer ==
    /\ pc = "idle" /\ finish_timer
    /\ Teardown(stream, TRUE, q)
    /\ UNCHANGED <<phase, fd, stream_ended, env>>

(* cloak_stream_relay_stop, by the owner. *)
Stop ==
    /\ pc = "idle" /\ phase = "running" /\ ~done
    /\ Teardown(stream, FALSE, q)
    /\ UNCHANGED <<phase, fd, stream_ended, env>>

----------------------------------------------------------------------------
(* The socket's peer, the tunnel's peer, the pool and the clock.  Each acts *)
(* between two handlers.                                                    *)

(* A socket change is an edge: the fd goes on the ready list if the mask   *)
(* lets it through.                                                        *)
FdBecomes(f) ==
    /\ pc = "idle" /\ ~done /\ fd' = f
    /\ onlist' = (onlist \/ (phase = "running" /\ Fires(f, interest)))
    /\ UNCHANGED <<phase, fd_read_paused, stream_ended, to_fd, rate_timer,
                   finish_timer, done, on_done, interest, stream, pool, others,
                   violated, pc, left>>

FdData ==
    /\ arrived.fd < MaxIn /\ ~fd.eof /\ ~fd.err
    /\ arrived' = [arrived EXCEPT !.fd = @ + 1]
    /\ FdBecomes([fd EXCEPT !.in = @ + 1])
FdEof == ~fd.eof /\ FdBecomes([fd EXCEPT !.eof = TRUE]) /\ UNCHANGED arrived
FdReset == ~fd.err /\ FdBecomes([fd EXCEPT !.err = TRUE]) /\ UNCHANGED arrived
FdPeerReads ==
    /\ fd.room < RoomCap
    /\ FdBecomes([fd EXCEPT !.room = RoomCap]) /\ UNCHANGED arrived

(* A frame reaches the stream; on_stream_data notifies the relay before    *)
(* anything else runs.  A closing frame drained by a later read, not by    *)
(* the session, leaves the stream unretired.                               *)
StreamData ==
    /\ pc = "idle" /\ ~stream.retired /\ ~stream.closed
    /\ arrived.stream < MaxStream
    /\ arrived' = [arrived EXCEPT !.stream = @ + 1]
    /\ NotifyStreamData([stream EXCEPT !.rq = @ + 1])
    /\ UNCHANGED <<others, violated>>
StreamClosing ==
    /\ pc = "idle" /\ ~stream.retired /\ ~stream.closed
    /\ \E r \in BOOLEAN :
          NotifyStreamData([stream EXCEPT !.closed = TRUE, !.retired = r])
    /\ UNCHANGED env
(* The frame broke the protocol: the session retires the stream and calls  *)
(* on_stream_data all the same.                                            *)
StreamViolation ==
    /\ pc = "idle" /\ ~stream.retired /\ ~stream.closed
    /\ violated' = TRUE
    /\ NotifyStreamData([stream EXCEPT !.retired = TRUE])
    /\ UNCHANGED <<others, arrived>>

(* Another stream's relay sends a frame, within the same budget. *)
OtherSend ==
    /\ pc = "idle" /\ ~pool_broken /\ others < MaxOther /\ ~PoolBound(q)
    /\ others' = others + 1
    /\ \E c \in Conns : q' = [q EXCEPT ![c] = @ + DataCost]
    /\ Spend
    /\ UNCHANGED <<relay, fd, stream, pool_broken, overflow, arrived, violated,
                   pc, left>>

(* A connection's queue reaches the kernel; when it empties, on_drained    *)
(* notifies the relay.                                                     *)
PoolDrains(c) ==
    /\ pc = "idle" /\ ~pool_broken /\ q[c] > 0
    /\ \/ NotifyWritable([q EXCEPT ![c] = 0])
       \/ q[c] > DataCost /\ DrainOnly([q EXCEPT ![c] = @ - DataCost])
    /\ UNCHANGED env

(* A connection is lost, and with it the pool. *)
PoolBreaks ==
    /\ pc = "idle" /\ ~pool_broken /\ pool_broken' = TRUE
    /\ UNCHANGED <<relay, fd, stream, q, overflow, bucket, env, pc, left>>

(* Time refills the bucket. *)
Tick ==
    /\ pc = "idle" /\ bucket.limited /\ bucket.tokens < BucketCap
    /\ bucket' = [bucket EXCEPT !.tokens = @ + 1]
    /\ UNCHANGED <<relay, fd, stream, q, pool_broken, overflow, env, pc, left>>

----------------------------------------------------------------------------
Loop == ReadPause \/ ReadBytes \/ WriteFrame \/ WriteEnd \/ ReadEnd \/ ReadFail

Next ==
    \/ Start \/ OnEvent \/ OnEventFinishing \/ Loop
    \/ OnRateTimer \/ OnFinishTimer \/ Stop
    \/ FdData \/ FdEof \/ FdReset \/ FdPeerReads
    \/ StreamData \/ StreamClosing \/ StreamViolation
    \/ OtherSend \/ PoolBreaks \/ Tick
    \/ \E c \in Conns : PoolDrains(c)

Spec == Init /\ [][Next]_vars

(* The event loop runs every handler that is due, timers included; time    *)
(* passes; a connection that is not lost drains; the socket's peer reads;  *)
(* and the owner stops the relays of a session that is broken.             *)
FairSpec ==
    /\ Spec
    /\ WF_vars(OnEvent) /\ WF_vars(Loop)
    /\ WF_vars(OnRateTimer) /\ WF_vars(OnFinishTimer)
    /\ WF_vars(pool_broken /\ Stop)
    /\ WF_vars(Tick) /\ WF_vars(FdPeerReads)
    /\ \A c \in Conns : WF_vars(PoolDrains(c) /\ q'[c] = 0)

----------------------------------------------------------------------------
(* Properties. *)

(* The frames one read produces fit the pool whichever connection each of  *)
(* them goes to: the relay's data never overruns a connection's send queue *)
(* (stream_relay_fd_read_budget).                                          *)
DataFitsPool == overflow # "data"

(* A paused read always has something that will resume it: the rate timer, *)
(* or a connection that still has bytes to drain and will report it.       *)
PauseIsResumed ==
    Live /\ pc = "idle" /\ fd_read_paused =>
        rate_timer \/ \E c \in Conns : q[c] > 0

(* Between two handlers no readiness edge is lost: what the relay wants to *)
(* hear of and the socket has to report is on epoll's ready list.          *)
NoLostEdge ==
    Live /\ pc = "idle" =>
        /\ "R" \in interest <=> ~fd_read_paused /\ ~stream_ended
        /\ "W" \in interest <=> to_fd > 0
        /\ ("R" \in interest /\ Readable(fd)) \/ ("W" \in interest /\ Writable(fd))
                => onlist

(* A running relay never waits for something that cannot happen any more:  *)
(* its pauses are resumed and its edges are on the ready list.             *)
NoStall == PauseIsResumed /\ NoLostEdge

(* The relay is well typed; a finished one is inert, no timer or event is  *)
(* left that would reach freed memory, and its owner was told at most once. *)
FinishedIsInert ==
    /\ TypeOK
    /\ done => ~rate_timer /\ ~finish_timer /\ ~onlist
    /\ on_done <= (IF done THEN 1 ELSE 0)

(* A normal end of the relay drops nothing, and start never reports        *)
(* completion itself (pump_stream_to_fd, cloak_stream_relay_start).        *)
EndsFlushed ==
    [][on_done' > on_done =>
          /\ phase = "running"
          /\ ~fd.eof /\ ~fd.err /\ ~pool_broken /\ ~BucketDry
                => stream'.closed /\ fd'.out = arrived'.stream]_vars

(* session.c on a frame that broke the protocol: "a consumer holding this  *)
(* stream learns to tear its own side down rather than waiting forever".   *)
ViolationEnds == (phase = "running" /\ violated) ~> done
=============================================================================
