---------------------------- MODULE DgramStream ----------------------------
(***************************************************************************)
(* One direction of an unordered Cloak stream (a UDP flow): one frame per  *)
(* datagram, no reassembly, no duplicate test, and a bounded queue that    *)
(* drops what does not fit (the unordered halves of cloak_stream_write,    *)
(* cloak_stream_feed_frame and cloak_stream_read in                        *)
(* libcloak-mux/src/stream.c, over libcloak-mux/src/msgqueue.c), with the  *)
(* part of session_on_envelope that retires the reading stream.            *)
(*                                                                         *)
(* A datagram is its number among the datagrams written; its length is a   *)
(* function of it.  The pool delivers frames in any order.                 *)
(***************************************************************************)
EXTENDS Naturals, Sequences, FiniteSets, FiniteSetsExt

CONSTANTS MaxPayload,   \* max_payload_per_frame of the writing end
          QueueCap,     \* capacity of recv_msgs, in bytes
          Prefix,       \* CLOAK_MSGQUEUE_LEN_PREFIX
          Sizes,        \* datagram sizes the application writes
          ReadCaps,     \* buffer sizes the consumer reads into
          Repeats,      \* TRUE when a frame may be delivered twice
          MaxDgrams     \* bound on the datagrams written

DgramAssumption ==
    /\ MaxPayload \in Nat \ {0}
    /\ Prefix \in Nat \ {0} /\ QueueCap \in Nat /\ QueueCap > Prefix
    /\ Sizes \subseteq Nat \ {0} /\ ReadCaps \subseteq Nat
    /\ Repeats \in BOOLEAN /\ MaxDgrams \in Nat

VARIABLES
    size,           \* size[i] is the length of the i-th datagram sent
    write_closed,   \* the writer's write side is finished
    wire,           \* frames in flight
    recv_msgs,      \* the reader's queue of datagram numbers
    recv_closing_seen, \* a closing frame came in; the queue is closed
    dropped,        \* the frames counted in recv_dropped_datagrams
    retired,        \* the session has tombstoned the reading stream
    violated,       \* history: because feed_frame returned -1
    delivered,      \* what cloak_stream_read has returned, in order
    eof             \* cloak_stream_read has returned -1

writer == <<size, write_closed>>
reader == <<recv_msgs, recv_closing_seen, dropped, retired, violated,
            delivered, eof>>
vars == <<writer, wire, reader>>

(* Datagram 0 is the closing frame: its padding is never queued. *)
Frame == [dgram : 0..MaxDgrams, copy : {0, 1}]
Closing == [dgram |-> 0, copy |-> 0]

TypeOK ==
    /\ size \in Seq(1..MaxPayload) /\ Len(size) <= MaxDgrams
    /\ write_closed \in BOOLEAN /\ wire \subseteq Frame
    /\ recv_msgs \in Seq(1..Len(size)) /\ recv_closing_seen \in BOOLEAN
    /\ dropped \subseteq Frame /\ retired \in BOOLEAN /\ violated \in BOOLEAN
    /\ delivered \in Seq(1..Len(size)) /\ eof \in BOOLEAN

Init ==
    /\ size = << >> /\ write_closed = FALSE /\ wire = {}
    /\ recv_msgs = << >> /\ recv_closing_seen = FALSE /\ dropped = {}
    /\ retired = FALSE /\ violated = FALSE /\ delivered = << >> /\ eof = FALSE

----------------------------------------------------------------------------
(* The writing end. *)

(* cloak_stream_write of an n-byte datagram: one frame, or, when n exceeds *)
(* max_payload_per_frame, CLOAK_STREAM_ERR_SHORT_BUFFER and nothing sent.  *)
Write(n) ==
    /\ ~write_closed /\ Len(size) < MaxDgrams
    /\ n <= MaxPayload
    /\ size' = Append(size, n)
    /\ wire' = wire \cup {[dgram |-> Len(size) + 1, copy |-> 0]}
    /\ UNCHANGED <<write_closed, reader>>

(* cloak_stream_write or cloak_stream_send_closing when the sink refuses. *)
SinkFails ==
    /\ ~write_closed
    /\ write_closed' = TRUE
    /\ UNCHANGED <<size, wire, reader>>

SendClosing ==
    /\ ~write_closed
    /\ write_closed' = TRUE
    /\ wire' = wire \cup {Closing}
    /\ UNCHANGED <<size, reader>>

----------------------------------------------------------------------------
(* The reading end. *)

Cost(d) == Prefix + size[d]
QueueLen == FoldFunction(LAMBDA d, n : Cost(d) + n, 0, recv_msgs)

TooLarge(d) == size[d] > QueueCap - Prefix
Full(d) == Cost(d) > QueueCap - QueueLen

TakeFromWire(f) ==
    \/ wire' = wire \ {f}
    \/ /\ Repeats /\ f.copy = 0
       /\ wire' = (wire \ {f}) \cup {[f EXCEPT !.copy = 1]}

(* session_on_envelope for a tombstoned stream. *)
FeedRetired(f) ==
    /\ f \in wire /\ retired
    /\ TakeFromWire(f)
    /\ UNCHANGED <<writer, reader>>

(* A closing frame closes the queue at once; the session retires. *)
FeedClosing(f) ==
    /\ f \in wire /\ ~retired /\ f.dgram = 0
    /\ TakeFromWire(f)
    /\ recv_closing_seen' = TRUE /\ retired' = TRUE
    /\ UNCHANGED <<writer, recv_msgs, dropped, violated, delivered, eof>>

(* The queue takes the datagram. *)
FeedQueued(f) ==
    /\ f \in wire /\ ~retired /\ f.dgram # 0
    /\ ~TooLarge(f.dgram) /\ ~Full(f.dgram)
    /\ TakeFromWire(f)
    /\ recv_msgs' = Append(recv_msgs, f.dgram)
    /\ UNCHANGED <<writer, recv_closing_seen, dropped, retired, violated,
                   delivered, eof>>

(* CLOAK_MSGQUEUE_ERR_FULL: dropped and counted. *)
FeedDrop(f) ==
    /\ f \in wire /\ ~retired /\ f.dgram # 0
    /\ ~TooLarge(f.dgram) /\ Full(f.dgram)
    /\ TakeFromWire(f)
    /\ dropped' = dropped \cup {f}
    /\ UNCHANGED <<writer, recv_msgs, recv_closing_seen, retired, violated,
                   delivered, eof>>

(* CLOAK_MSGQUEUE_ERR_TOO_LARGE: the only -1 of this path. *)
FeedViolation(f) ==
    /\ f \in wire /\ ~retired /\ f.dgram # 0
    /\ TooLarge(f.dgram)
    /\ TakeFromWire(f)
    /\ retired' = TRUE /\ violated' = TRUE
    /\ UNCHANGED <<writer, recv_msgs, recv_closing_seen, dropped, delivered,
                   eof>>

(* Mutant: the datagram is popped before the buffer size is tested. *)
ReadPopsFirst(cap) ==
    /\ recv_msgs # << >>
    /\ delivered' = IF size[Head(recv_msgs)] <= cap
                    THEN Append(delivered, Head(recv_msgs)) ELSE delivered
    /\ recv_msgs' = Tail(recv_msgs)
    /\ UNCHANGED <<writer, wire, recv_closing_seen, dropped, retired,
                   violated, eof>>
(* cloak_stream_read into cap bytes: the whole next datagram, or           *)
(* CLOAK_STREAM_ERR_SHORT_BUFFER with the datagram left where it was.      *)
Read(cap) ==
    /\ recv_msgs # << >>
    /\ size[Head(recv_msgs)] <= cap
    /\ delivered' = Append(delivered, Head(recv_msgs))
    /\ recv_msgs' = Tail(recv_msgs)
    /\ UNCHANGED <<writer, wire, recv_closing_seen, dropped, retired,
                   violated, eof>>

(* cloak_stream_read of a queue that is closed and drained. *)
ReadEof ==
    /\ recv_msgs = << >> /\ recv_closing_seen
    /\ eof' = TRUE
    /\ UNCHANGED <<writer, wire, recv_msgs, recv_closing_seen, dropped,
                   retired, violated, delivered>>

(* cloak_session_close_stream by the consumer. *)
CloseLocally ==
    /\ ~retired
    /\ retired' = TRUE
    /\ UNCHANGED <<writer, wire, recv_msgs, recv_closing_seen, dropped,
                   violated, delivered, eof>>

----------------------------------------------------------------------------
Deliver(f) == \/ FeedRetired(f) \/ FeedClosing(f) \/ FeedQueued(f)
              \/ FeedDrop(f) \/ FeedViolation(f)
Consume == (\E cap \in ReadCaps : Read(cap)) \/ ReadEof

Next ==
    \/ \E n \in Sizes : Write(n)
    \/ SinkFails \/ SendClosing
    \/ \E f \in wire : Deliver(f)
    \/ Consume \/ CloseLocally

Spec == Init /\ [][Next]_vars

----------------------------------------------------------------------------
(* Properties. *)

Occurrences(d) ==
    Cardinality({i \in DOMAIN delivered : delivered[i] = d})
        + Cardinality({i \in DOMAIN recv_msgs : recv_msgs[i] = d})
        + Cardinality({f \in dropped : f.dgram = d})
        + Cardinality({f \in wire : f.dgram = d})

(* The queue holds no more than its capacity, length prefixes included.    *)
WithinCapacity == QueueLen <= QueueCap

(* Until the stream is retired every datagram that was sent is in flight,  *)
(* queued, delivered or counted as dropped, and exactly once unless the    *)
(* network repeats frames: neither a short read buffer nor a full queue    *)
(* loses one without a trace, and the end comes after what was queued.     *)
(* The receive path retires a stream only for a datagram that its queue    *)
(* could never hold, however full it is.                                   *)
Conservation ==
    /\ TypeOK /\ WithinCapacity
    /\ ~retired => \A d \in 1..Len(size) :
           Occurrences(d) \in (IF Repeats THEN {1, 2} ELSE {1})
    /\ eof => recv_msgs = << >>
    /\ violated => \E d \in 1..Len(size) : TooLarge(d)
=============================================================================
