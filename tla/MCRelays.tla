------------------------------ MODULE MCRelays ------------------------------
(***************************************************************************)
(* The three relays under one set of properties: the stream relay (this    *)
(* module's StreamRelay), the datagram relay and the byte relay.  A        *)
(* behaviour is one relay's, chosen at the start.                          *)
(***************************************************************************)
EXTENDS StreamRelay

CONSTANT MaxSent   \* bound: bytes a side of the byte relay sends

VARIABLES kind,                      \* which relay this behaviour is about
          rel, sock, strm, dpool, seen,   \* the datagram relay
          rl, sk, sent                    \* the byte relay

Dgram == INSTANCE DgramRelay WITH pool <- dpool
Bytes == INSTANCE ByteRelay WITH QueueCap <- Chunk, MaxSent <- MaxSent

dvars == <<rel, sock, strm, dpool, seen>>
bvars == <<rl, sk, sent>>
allvars == <<vars, kind, dvars, bvars>>

MCInit ==
    /\ kind \in {"stream", "dgram", "bytes"}
    /\ Init /\ Dgram!Init /\ Bytes!Init
    /\ kind # "stream" => ~bucket.limited
    /\ kind # "dgram" => ~dpool.limited

StreamNext == kind = "stream" /\ Next /\ UNCHANGED <<kind, dvars, bvars>>
DgramNext == kind = "dgram" /\ Dgram!Next /\ UNCHANGED <<kind, vars, bvars>>
BytesNext == kind = "bytes" /\ Bytes!Next /\ UNCHANGED <<kind, vars, dvars>>
MCNext == StreamNext \/ DgramNext \/ BytesNext

(* The event loop runs every handler that is due; time passes, a           *)
(* connection drains, the peers read, and the owner stops the relays of a  *)
(* broken session.                                                         *)
OnDgram(A) == A /\ kind = "dgram" /\ UNCHANGED <<kind, vars, bvars>>
OnBytes(A) == A /\ kind = "bytes" /\ UNCHANGED <<kind, vars, dvars>>
OnStream(A) == A /\ kind = "stream" /\ UNCHANGED <<kind, dvars, bvars>>
MCSpec ==
    /\ MCInit /\ [][MCNext]_allvars
    /\ WF_allvars(\/ OnStream(OnEvent) \/ OnDgram(Dgram!OnEvent)
                  \/ OnBytes(Bytes!OnEvent(0)))
    /\ WF_allvars(OnBytes(Bytes!OnEvent(1)))
    /\ WF_allvars(OnStream(Loop) \/ OnDgram(Dgram!ReadLoop))
    /\ WF_allvars(OnStream(OnRateTimer) \/ OnDgram(Dgram!OnRateTimer))
    /\ WF_allvars(OnStream(OnFinishTimer) \/ OnDgram(Dgram!OnFinishTimer))
    /\ WF_allvars(\/ OnStream(pool_broken /\ Stop)
                  \/ OnDgram(dpool.broken /\ Dgram!Stop))
    /\ WF_allvars(OnStream(Tick) \/ OnDgram(Dgram!Tick))
    /\ WF_allvars(\/ OnStream(FdPeerReads) \/ OnDgram(Dgram!SockDrains)
                  \/ OnBytes(Bytes!PeerReads(0)))
    /\ WF_allvars(OnBytes(Bytes!PeerReads(1)))
    /\ \A c \in Conns : WF_allvars(\/ OnStream(PoolDrains(c) /\ q'[c] = 0)
                                   \/ OnDgram(Dgram!PoolDrains(c)))

-----------------------------------------------------------------------------
(* What a relay passes on fits and keeps its order: a frame fits whichever *)
(* connection it lands on (stream_relay_fd_read_budget,                    *)
(* dgram_relay_can_accept_frame), and the byte relay's peers get each      *)
(* other's bytes in order, preload first (pump_read, pump_write).          *)
DataFits == DataFitsPool /\ Dgram!DataFitsPool /\ Bytes!InOrder

(* A relay at rest is right to rest: a running one waits for something     *)
(* that can still happen (sync_interest, the notifications), the byte      *)
(* relay does not spin on a peer it cannot read, and a finished one is     *)
(* inert and has told its owner at most once (the three teardowns).        *)
NoRelayStalls ==
    /\ NoStall /\ Dgram!NoStall /\ Bytes!NoStall /\ Bytes!NoSpin
    /\ FinishedIsInert /\ Dgram!FinishedIsInert /\ Bytes!FinishedIsInert

(* What a relay holds or could read it moves, and it ends when a side does *)
(* (on_event, sync_interest, the timers and the notifications together).   *)
StreamOwes == phase = "running" /\ ~done /\
    (fd.in > 0 \/ stream.rq + to_fd > 0 \/ stream.closed \/ fd.eof \/ fd.err)
Owes == StreamOwes \/ Dgram!Owes \/ Bytes!Owes
AllMoves == Owes ~> ~Owes
=============================================================================
