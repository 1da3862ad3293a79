----------------------------- MODULE MCStreams -----------------------------
(***************************************************************************)
(* The two modes of a stream for TLC.  cloak_stream_init fixes the mode of *)
(* a stream for good: an ordered one is OrderedStream, an unordered one    *)
(* DgramStream.  A behaviour is one or the other.                          *)
(***************************************************************************)
EXTENDS OrderedStream

CONSTANTS DgramPayload, QueueCap, Prefix, Sizes, ReadCaps, MaxDgrams

VARIABLES ordered, size, dgram_write_closed, dgram_wire, recv_msgs,
          dgram_closing_seen, dropped, dgram_retired, dgram_violated,
          delivered, dgram_eof

Dgram == INSTANCE DgramStream WITH
    MaxPayload <- DgramPayload,
    write_closed <- dgram_write_closed, wire <- dgram_wire,
    recv_closing_seen <- dgram_closing_seen, retired <- dgram_retired,
    violated <- dgram_violated, eof <- dgram_eof

dvars == <<size, dgram_write_closed, dgram_wire, recv_msgs, dgram_closing_seen,
           dropped, dgram_retired, dgram_violated, delivered, dgram_eof>>
allvars == <<ordered, vars, dvars>>

ASSUME Dgram!DgramAssumption

MCInit == ordered \in BOOLEAN /\ Init /\ Dgram!Init
Ordered(A) == ordered /\ A /\ UNCHANGED <<ordered, dvars>>
Unordered(A) == ~ordered /\ A /\ UNCHANGED <<ordered, vars>>

(* Next of the one and of the other, disjunct by disjunct. *)
MCNext ==
    \/ \E n \in 1..MaxBytes : Ordered(Write(n))
    \/ Ordered(WriteChunk) \/ Ordered(WriteDone) \/ Ordered(WriteSinkFails)
    \/ \E pad \in PadLens : Ordered(SendClosing(pad))
    \/ Ordered(SendClosingSinkFails)
    \/ \E f \in wire : \/ Ordered(FeedRetired(f)) \/ Ordered(FeedAccept(f))
                       \/ Ordered(FeedViolation(f))
    \/ \E f \in heap : Ordered(DrainData(f)) \/ Ordered(DrainClosing(f))
    \/ Ordered(DrainStop)
    \/ \E cap \in 1..RecvCap : Ordered(Read(cap))
    \/ Ordered(ReadEof) \/ Ordered(CloseLocally)
    \/ \E n \in Sizes : Unordered(Dgram!Write(n))
    \/ Unordered(Dgram!SinkFails) \/ Unordered(Dgram!SendClosing)
    \/ \E f \in dgram_wire :
          \/ Unordered(Dgram!FeedRetired(f)) \/ Unordered(Dgram!FeedClosing(f))
          \/ Unordered(Dgram!FeedQueued(f)) \/ Unordered(Dgram!FeedDrop(f))
          \/ Unordered(Dgram!FeedViolation(f))
    \/ \E cap \in ReadCaps : Unordered(Dgram!Read(cap))
    \/ Unordered(Dgram!ReadEof) \/ Unordered(Dgram!CloseLocally)

MCSpec == MCInit /\ [][MCNext]_allvars /\ Fairness

(* What an unordered stream keeps, full queues and short reads included    *)
(* (feed_frame_unordered, cloak_msgqueue_write, cloak_msgqueue_read).      *)
DgramConservation == Dgram!Conservation
=============================================================================
