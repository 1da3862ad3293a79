--------------------------- MODULE OrderedStream ---------------------------
(***************************************************************************)
(* One direction of one ordered Cloak stream: the writing cloak_stream_t,  *)
(* the frames its session has spread over the connections of the pool, and *)
(* the reading cloak_stream_t that puts them back in order                 *)
(* (libcloak-mux/src/stream.c), with the part of session_on_envelope       *)
(* (libcloak-mux/src/session.c) that retires the reading stream.           *)
(*                                                                         *)
(* Every frame travels on a connection picked at random, so frames reach   *)
(* the reader in any order: the wire is a set.  A payload byte is named by *)
(* its position in what the application wrote, so a payload is an interval *)
(* (from, from + len] and "delivered in order" is visible in the data.     *)
(* The reader's byte queue is the part of `received` not yet read.         *)
(*                                                                         *)
(* Each end is single-threaded: while it is inside the loop of             *)
(* cloak_stream_write (pc = "write") or of try_drain ("feed", "read")      *)
(* nothing else runs there.  The two ends share only the wire, so taking   *)
(* these loops to be atomic for the other end too loses no behaviour.      *)
(***************************************************************************)
EXTENDS Naturals, Sequences, FiniteSets

CONSTANTS MaxPayload,   \* max_payload_per_frame of the writing end
          RecvCap,      \* recv_capacity of the reading end
          MaxPending,   \* max_pending_frames of the reading end
          PadLens,      \* padding lengths a closing frame may carry
          Repeats,      \* TRUE when the peer may send a frame twice
          MaxBytes      \* bound on the bytes the application writes

ASSUME StreamAssumption ==
    /\ MaxPayload \in Nat \ {0}
    /\ RecvCap \in Nat \ {0}
    /\ MaxPending \in Nat \ {0}
    /\ PadLens \subseteq 1..MaxPayload
    /\ Repeats \in BOOLEAN
    /\ MaxBytes \in Nat

VARIABLES
    next_write_seq, \* the writer's next sequence number
    write_closed,   \* the writer's write side is finished
    written,        \* bytes the writer has put into frames
    todo,           \* bytes of the write in progress not yet in a frame
    sent,           \* history: the frames handed to the sink, by sequence number
    wire,           \* frames in flight on the pool's connections
    heap,           \* the reader's pending frames, ordered by seq
    next_recv_seq,  \* the sequence number the reader waits for
    received,       \* bytes put into the byte queue so far
    nread,          \* how many of them cloak_stream_read has returned
    recv_closing_seen, \* a closing frame was drained; the byte queue is closed
    retired,        \* the session has tombstoned the reading stream
    violated,       \* history: it was retired because feed_frame returned -1
    eof,            \* cloak_stream_read has returned -1
    pc              \* the loop in progress: of a write, of a drain, or none

writer == <<next_write_seq, write_closed, written, todo, sent>>
reader == <<heap, next_recv_seq, received, nread, recv_closing_seen,
            retired, violated, eof, pc>>
vars == <<writer, wire, reader>>

Frame == [seq : Nat, closing : BOOLEAN, from : Nat, len : Nat, copy : {0, 1}]

TypeOK ==
    /\ next_write_seq \in Nat /\ write_closed \in BOOLEAN /\ written \in Nat
    /\ todo \in Nat
    /\ sent \in Seq(Frame)
    /\ wire \subseteq Frame /\ heap \subseteq Frame
    /\ next_recv_seq \in Nat /\ received \in Seq(Nat)
    /\ nread \in 0..Len(received)
    /\ recv_closing_seen \in BOOLEAN /\ retired \in BOOLEAN
    /\ violated \in BOOLEAN /\ eof \in BOOLEAN
    /\ pc \in {"idle", "write", "feed", "read"}

(* cloak_stream_init, on both ends. *)
Init ==
    /\ next_write_seq = 0 /\ write_closed = FALSE /\ written = 0 /\ todo = 0
    /\ sent = << >> /\ wire = {} /\ heap = {}
    /\ next_recv_seq = 0 /\ received = << >> /\ nread = 0
    /\ recv_closing_seen = FALSE /\ retired = FALSE
    /\ violated = FALSE /\ eof = FALSE /\ pc = "idle"

----------------------------------------------------------------------------
(* The writing end. *)

Smaller(a, b) == IF a <= b THEN a ELSE b

(* cloak_stream_write of n bytes is entered with its write side open. *)
Write(n) ==
    /\ pc = "idle" /\ ~write_closed /\ written + n <= MaxBytes
    /\ todo' = n
    /\ pc' = "write"
    /\ UNCHANGED <<next_write_seq, write_closed, written, sent, wire, heap,
                   next_recv_seq, received, nread, recv_closing_seen, retired,
                   violated, eof>>

(* One turn of its loop: a frame of at most max_payload_per_frame bytes is *)
(* numbered, and the sink takes it.                                        *)
WriteChunk ==
    /\ pc = "write" /\ todo > 0
    /\ LET f == [seq |-> next_write_seq, closing |-> FALSE, from |-> written,
                 len |-> Smaller(todo, MaxPayload), copy |-> 0]
       IN  /\ sent' = Append(sent, f)
           /\ wire' = wire \cup {f}
           /\ written' = written + f.len
           /\ todo' = todo - f.len
    /\ next_write_seq' = next_write_seq + 1
    /\ UNCHANGED <<write_closed, reader>>

(* The loop is through. *)
WriteDone ==
    /\ pc = "write" /\ todo = 0
    /\ pc' = "idle"
    /\ UNCHANGED <<writer, wire, heap, next_recv_seq, received, nread,
                   recv_closing_seen, retired, violated, eof>>

(* The sink refuses a frame: the frames before it are gone, its sequence   *)
(* number is spent, and the write side is closed for good.                 *)
WriteSinkFails ==
    /\ pc = "write" /\ todo > 0
    /\ next_write_seq' = next_write_seq + 1
    /\ write_closed' = TRUE
    /\ todo' = 0
    /\ pc' = "idle"
    /\ UNCHANGED <<written, sent, wire, heap, next_recv_seq, received, nread,
                   recv_closing_seen, retired, violated, eof>>

(* cloak_stream_send_closing: one padded closing frame, then no more writes. *)
SendClosing(pad) ==
    /\ pc = "idle" /\ ~write_closed
    /\ LET f == [seq |-> next_write_seq, closing |-> TRUE, from |-> written,
                 len |-> pad, copy |-> 0]
       IN  sent' = Append(sent, f) /\ wire' = wire \cup {f}
    /\ next_write_seq' = next_write_seq + 1
    /\ write_closed' = TRUE
    /\ UNCHANGED <<written, todo, reader>>

(* cloak_stream_send_closing when the sink refuses the frame. *)
SendClosingSinkFails ==
    /\ pc = "idle" /\ ~write_closed
    /\ next_write_seq' = next_write_seq + 1
    /\ write_closed' = TRUE
    /\ UNCHANGED <<written, todo, sent, wire, reader>>

----------------------------------------------------------------------------
(* The reading end. *)

Queued == Len(received) - nread

(* heap[0]: a pending frame with the smallest seq. *)
IsTop(f) == \A g \in heap : f.seq <= g.seq
(* Mutant: the top of the heap is drained without comparing its seq. *)
TopWithoutSeqTest(f) == IsTop(f)
TopInOrder(f) == IsTop(f) /\ f.seq = next_recv_seq
(* try_drain can take f: a closing frame always, data only if it fits. *)
Drainable(f) == TopInOrder(f) /\ (f.closing \/ f.len <= RecvCap - Queued)

Payload(f) == [i \in 1..f.len |-> f.from + i]

(* Mutant: the cap counts the frame being pushed once too often. *)
AcceptableCapOffByOne(f) ==
    /\ ~recv_closing_seen /\ f.seq >= next_recv_seq /\ f.len <= RecvCap
    /\ \A g \in heap : g.seq # f.seq
    /\ Cardinality(heap) + 1 < MaxPending
(* Mutant: no test against the capacity of the byte queue. *)
AcceptableAnySize(f) ==
    /\ ~recv_closing_seen /\ f.seq >= next_recv_seq
    /\ \A g \in heap : g.seq # f.seq
    /\ Cardinality(heap) < MaxPending
(* The tests cloak_stream_feed_frame makes before it buffers a frame; the  *)
(* last is heap_push's.                                                    *)
Acceptable(f) ==
    /\ ~recv_closing_seen
    /\ f.seq >= next_recv_seq
    /\ \A g \in heap : g.seq # f.seq
    /\ f.len <= RecvCap
    /\ Cardinality(heap) < MaxPending

(* A frame leaves its connection; a peer that repeats itself has sent a    *)
(* second copy behind the first.                                           *)
TakeFromWire(f) ==
    \/ wire' = wire \ {f}
    \/ /\ Repeats /\ f.copy = 0
       /\ wire' = (wire \ {f}) \cup {[f EXCEPT !.copy = 1]}

(* session_on_envelope for a tombstoned stream: the frame is dropped. *)
FeedRetired(f) ==
    /\ pc = "idle" /\ f \in wire /\ retired
    /\ TakeFromWire(f)
    /\ UNCHANGED <<writer, reader>>

(* session_on_envelope -> cloak_stream_feed_frame, up to its try_drain. *)
FeedAccept(f) ==
    /\ pc = "idle" /\ f \in wire /\ ~retired
    /\ Acceptable(f)
    /\ TakeFromWire(f)
    /\ heap' = heap \cup {f}
    /\ pc' = "feed"
    /\ UNCHANGED <<writer, next_recv_seq, received, nread, recv_closing_seen,
                   retired, violated, eof>>

(* cloak_stream_feed_frame returned -1: the session retires the stream. *)
FeedViolation(f) ==
    /\ pc = "idle" /\ f \in wire /\ ~retired
    /\ ~Acceptable(f)
    /\ TakeFromWire(f)
    /\ retired' = TRUE /\ violated' = TRUE
    /\ UNCHANGED <<writer, heap, next_recv_seq, received, nread,
                   recv_closing_seen, eof, pc>>

(* One turn of try_drain's loop: a data frame that is next and fits. *)
DrainData(f) ==
    /\ pc \in {"feed", "read"} /\ Drainable(f) /\ ~f.closing
    /\ heap' = heap \ {f}
    /\ received' = received \o Payload(f)
    /\ next_recv_seq' = next_recv_seq + 1
    /\ UNCHANGED <<writer, wire, nread, recv_closing_seen, retired, violated,
                   eof, pc>>

(* try_drain meets the closing frame.  It returns 1, which only            *)
(* session_on_envelope acts on; cloak_stream_read ignores it.              *)
DrainClosing(f) ==
    /\ pc \in {"feed", "read"} /\ Drainable(f) /\ f.closing
    /\ heap' = heap \ {f}
    /\ recv_closing_seen' = TRUE
    /\ retired' = (retired \/ pc = "feed")
    /\ pc' = "idle"
    /\ UNCHANGED <<writer, wire, next_recv_seq, received, nread, violated, eof>>

(* try_drain stops: nothing is next, or what is next does not fit yet. *)
DrainStop ==
    /\ pc \in {"feed", "read"}
    /\ \A f \in heap : ~Drainable(f)
    /\ pc' = "idle"
    /\ UNCHANGED <<writer, wire, heap, next_recv_seq, received, nread,
                   recv_closing_seen, retired, violated, eof>>

(* Mutant: a read does not retry the drain. *)
ReadWithoutDrain(cap) ==
    /\ pc = "idle" /\ Queued > 0
    /\ nread' = nread + Smaller(cap, Queued)
    /\ UNCHANGED <<writer, wire, heap, next_recv_seq, received,
                   recv_closing_seen, retired, violated, eof, pc>>
(* cloak_stream_read with room for cap bytes: the bytes there are, and a   *)
(* new attempt to drain.                                                   *)
Read(cap) ==
    /\ pc = "idle" /\ Queued > 0
    /\ nread' = nread + Smaller(cap, Queued)
    /\ pc' = "read"
    /\ UNCHANGED <<writer, wire, heap, next_recv_seq, received,
                   recv_closing_seen, retired, violated, eof>>

(* cloak_stream_read at end of stream: closed and empty. *)
ReadEof ==
    /\ pc = "idle" /\ Queued = 0 /\ recv_closing_seen
    /\ eof' = TRUE
    /\ UNCHANGED <<writer, wire, heap, next_recv_seq, received, nread,
                   recv_closing_seen, retired, violated, pc>>

(* cloak_session_close_stream by the reading end's own consumer. *)
CloseLocally ==
    /\ pc = "idle" /\ ~retired
    /\ retired' = TRUE
    /\ UNCHANGED <<writer, wire, heap, next_recv_seq, received, nread,
                   recv_closing_seen, violated, eof, pc>>

----------------------------------------------------------------------------
WriterNext ==
    \/ \E n \in 1..MaxBytes : Write(n)
    \/ WriteChunk \/ WriteDone \/ WriteSinkFails
    \/ \E pad \in PadLens : SendClosing(pad)
    \/ SendClosingSinkFails

Deliver(f) == FeedRetired(f) \/ FeedAccept(f) \/ FeedViolation(f)
Drain == (\E f \in heap : DrainData(f) \/ DrainClosing(f)) \/ DrainStop
ReaderNext == (\E cap \in 1..RecvCap : Read(cap)) \/ ReadEof

Next ==
    \/ WriterNext
    \/ \E f \in wire : Deliver(f)
    \/ Drain
    \/ ReaderNext
    \/ CloseLocally

Spec == Init /\ [][Next]_vars

(* TCP delivers every frame of a live connection, the reactor runs the     *)
(* handler it entered to its end, and a consumer drains a stream that has  *)
(* bytes (pump_stream_to_fd reads until cloak_stream_read returns 0).      *)
Fairness ==
    /\ WF_vars(\E f \in wire : Deliver(f))
    /\ WF_vars(Drain)
    /\ WF_vars(ReaderNext)

FairSpec == Spec /\ Fairness

----------------------------------------------------------------------------
(* Properties. *)

(* The reader's byte queue only ever receives the bytes the writer wrote,  *)
(* each once and in the order they were written, whatever order the pool   *)
(* delivered the frames in (try_drain over next_recv_seq).                 *)
InOrder == \A i \in 1..Len(received) : received[i] = i

(* cloak_stream_read reports end of stream only when every byte written    *)
(* before the close has been read: a close that overtakes data on another  *)
(* connection never truncates the stream.                                  *)
EofIsComplete == eof => nread = written

(* A frame that is next in order waits in the heap only while the byte     *)
(* queue holds something.  Only a read that returned bytes retries the     *)
(* drain, so a frame stuck behind an empty queue would stay there for ever *)
(* (the capacity test of cloak_stream_feed_frame and the duplicate test    *)
(* are what rule it out).                                                  *)
NoWedge == (pc = "idle" /\ \E f \in heap : TopInOrder(f)) => Queued > 0

(* A frame older than next_recv_seq at the top of the heap would hide      *)
(* every later frame from try_drain: all pending frames are still awaited. *)
HeapIsAhead == \A f \in heap : f.seq >= next_recv_seq

(* A frame that is no repeat and fits the byte queue is refused, and with  *)
(* it the stream lost, only when the heap is at max_pending_frames.        *)
FirstCopyLostOnlyToCap ==
    [][(violated' /\ ~violated) => \A f \in wire \ wire' :
            \/ f.copy = 1 \/ f.len > RecvCap
            \/ Cardinality(heap) = MaxPending]_vars

ClosingSent == \E i \in DOMAIN sent : sent[i].closing

(* A closing frame handed to the pool brings the reader to end of stream,  *)
(* unless the reading end gave the stream up first.                        *)
CloseReachesReader ==
    ClosingSent ~> (eof \/ (retired /\ ~recv_closing_seen))

(* What an ordered stream promises its two applications. *)
Promise == INSTANCE ByteStream WITH
    accepted <- written, finished <- write_closed,
    output <- SubSeq(received, 1, nread), ended <- eof

ImplementsByteStream == Promise!Spec
=============================================================================
