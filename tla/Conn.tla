-------------------------------- MODULE Conn --------------------------------
(***************************************************************************)
(* cloak_conn_t (libcloak-mux/src/conn.c): frames in and out of one        *)
(* non-blocking socket, under TLS-record or WebSocket framing.             *)
(*                                                                         *)
(* Bytes are counted in units: a header is one unit, two when masked, a    *)
(* payload of length l is l units.  The socket is external: sock units     *)
(* wait to be read, kbuf is its send buffer, edge the readiness epoll has  *)
(* yet to report.  stack holds the calls in progress, innermost first; the *)
(* owner's callbacks on_envelope and on_drained may send.                  *)
(***************************************************************************)
EXTENDS Naturals, Sequences, SequencesExt, FiniteSetsExt

CONSTANTS
    Framings,     \* of "tls", "ws_client", "ws_server"
    MaxFrameLen,  \* max_frame_len
    SendQueueCap, SockCap, Chunk,  \* send_q, the send buffer, the read buffer
    InFrames,     \* InFrames[f]: the frames a peer sends: op, fin, len, masked
    OutLens,      \* the lengths the owner sends
    MaxIn, MaxOut,   \* bounds: frames received, sent
    Limited, Refills, \* an rx rate; the tokens found when a pause ends
    PeerFails, TimersFail  \* the peer resets; arming a timer may fail

ASSUME ConnAssumption ==
    /\ Framings \subseteq {"tls", "ws_client", "ws_server"}
    /\ {MaxFrameLen, SendQueueCap, SockCap, Chunk} \subseteq Nat \ {0}
    /\ {Limited, PeerFails, TimersFail} \subseteq BOOLEAN
    /\ OutLens \subseteq Nat /\ Refills \subseteq Nat
    /\ \A framing \in Framings : \A f \in InFrames[framing] :
          f.len \in Nat /\ f.masked \in BOOLEAN

VARIABLES
    broken, want_writable, read_paused, interest, rx_resume_timer,
    send_q,        \* the units queued, each the number of its frame
    inbound,       \* frames of the peer not yet taken from recv_acc
    acc,           \* units in recv_acc, from the first inbound frame on
    ws,            \* framing, which is fixed, ws_msg_active and ws_msg_len
    sock, flight,  \* units in the socket and still under way
    peer,          \* the peer: "open", it ended the stream, or reset it
    kbuf, wire,    \* the send buffer, and what left it
    edge, tokens,
    stack,
    accepted,      \* history: frames queued to be sent, as <<op, number>>
    taken,         \* history: frames taken from recv_acc
    delivered,     \* history: the messages given to on_envelope
    msg,           \* history: the frames of the message in progress
    closed         \* history: calls of on_closed

sending == <<send_q, kbuf, want_writable, accepted>>
receiving == <<inbound, acc, ws, taken, delivered, msg>>
network == <<sock, flight, peer, wire>>
vars == <<broken, read_paused, interest, rx_resume_timer, sending, receiving,
          network, edge, tokens, stack, closed>>

IsWs == ws.framing # "tls"
PeerMasks == ws.framing = "ws_server"
HeaderLen(masked) == IF masked THEN 2 ELSE 1
SendEnvelope(len) == HeaderLen(ws.framing = "ws_client") + len
MaxRecvEnvelope == HeaderLen(PeerMasks) + MaxFrameLen
(* The capacity of recv_acc. *)
RecvAccCap == 2 * MaxRecvEnvelope
Size(f) == HeaderLen(f.masked) + f.len
Control(f) == f.op \in {"ping", "pong", "close"}

TypeOK ==
    /\ {broken, want_writable, read_paused, rx_resume_timer} \subseteq BOOLEAN
    /\ interest \subseteq {"R", "W"} /\ edge \subseteq {"R", "W"}
    /\ Len(send_q) <= SendQueueCap /\ Len(kbuf) <= SockCap
    /\ acc \in 0..RecvAccCap /\ {sock, flight, tokens} \subseteq Nat
    /\ ws \in [framing : Framings, active : BOOLEAN, len : 0..MaxFrameLen]
    /\ peer \in {"open", "fin", "rst"} /\ closed \in Nat
    /\ \A n \in 1..Len(stack) :
          stack[n] \in {"read", "extract", "write", "closing",
                       "envelope", "drained"}

Init ==
    /\ broken = FALSE /\ want_writable = FALSE /\ read_paused = FALSE
    /\ interest = {"R"} /\ rx_resume_timer = FALSE
    /\ send_q = <<>> /\ inbound = <<>> /\ acc = 0
    /\ ws \in [framing : Framings, active : {FALSE}, len : {0}]
    /\ sock = 0 /\ flight = 0 /\ peer = "open" /\ kbuf = <<>> /\ wire = <<>>
    /\ edge = {} /\ tokens \in Refills /\ stack = <<>>
    /\ accepted = <<>> /\ taken = <<>> /\ delivered = <<>> /\ msg = <<>>
    /\ closed = 0

----------------------------------------------------------------------------
(* What epoll reports when mask is (re-)registered. *)
Reports(mask) ==
    {e \in mask : \/ e = "R" /\ (sock > 0 \/ peer # "open")
                  \/ e = "W" /\ Len(kbuf') < SockCap}

(* conn_sync_interest for the primed pause and want_writable; edge is what *)
(* epoll already has to report.                                            *)
SyncInterest ==
    LET mask == (IF read_paused' THEN {} ELSE {"R"}) \cup
                (IF want_writable' THEN {"W"} ELSE {})
    IN  /\ interest' = mask
        /\ edge' = IF mask = interest THEN edge
                   ELSE (edge \cap mask) \cup Reports(mask)

(* conn_mark_broken: the descriptor is removed, on_closed called once. *)
MarkBroken ==
    /\ broken' = TRUE /\ edge' = {}
    /\ closed' = IF broken THEN closed ELSE closed + 1

Units(n, k) == [i \in 1..k |-> n]

(* What is left of queue q when the kernel took k units. *)
Left(q, k) == SubSeq(q, k + 1, Len(q))

(* The producer was held back, and the queue is empty now. *)
BackpressureEnds(q, k) == want_writable /\ k = Len(q)

(* conn_try_drain_send of queue q: write until the queue is empty or the   *)
(* kernel takes no more.  An empty queue after backpressure is reported.   *)
TryDrain(q, rest) ==
    LET k == Min({Len(q), SockCap - Len(kbuf)}) IN
    IF q # <<>> /\ peer = "rst"
    THEN /\ MarkBroken /\ send_q' = q
         /\ stack' = rest
         /\ UNCHANGED <<kbuf, want_writable, read_paused, interest>>
    ELSE /\ kbuf' = kbuf \o SubSeq(q, 1, k)
         /\ send_q' = Left(q, k)
         /\ want_writable' = (k < Len(q))
         /\ UNCHANGED <<broken, closed, read_paused>>
         /\ SyncInterest
         /\ stack' = IF BackpressureEnds(q, k) THEN <<"drained">> \o rest
                     ELSE rest

(* A frame into send_q, whole or not at all, then the drain: the end of    *)
(* cloak_conn_send, and of a pong.  No room breaks the connection.         *)
Enqueue(op, len, rest) ==
    IF SendQueueCap - Len(send_q) < SendEnvelope(len)
    THEN /\ MarkBroken /\ stack' = rest
         /\ UNCHANGED <<sending, read_paused, interest>>
    ELSE /\ accepted' = Append(accepted, <<op, SendEnvelope(len)>>)
         /\ TryDrain(send_q \o Units(Len(accepted) + 1, SendEnvelope(len)),
                     rest)

----------------------------------------------------------------------------
(* The owner. *)
Idle == stack = <<>>
OwnerRuns == ~(~Idle /\ Head(stack) \notin {"envelope", "drained"})
Running(call) == ~Idle /\ Head(stack) = call

(* cloak_conn_send; one that is refused has no effect. *)
Send(len) ==
    /\ OwnerRuns /\ ~broken /\ Len(accepted) < MaxOut
    /\ IF len > MaxFrameLen
       THEN /\ MarkBroken
            /\ UNCHANGED <<sending, read_paused, interest, stack>>
       ELSE Enqueue("data", len, stack)
    /\ UNCHANGED <<rx_resume_timer, receiving, network, tokens>>

CallbackReturns ==
    /\ ~Idle /\ Head(stack) \in {"envelope", "drained"}
    /\ stack' = Tail(stack)
    /\ UNCHANGED <<broken, read_paused, interest, rx_resume_timer, sending,
                   receiving, network, edge, tokens, closed>>

----------------------------------------------------------------------------
(* conn_reactor_cb *)
OnEvent ==
    /\ Idle /\ ~broken /\ edge # {}
    /\ stack' = (IF "R" \in edge THEN <<"read">> ELSE <<>>) \o
                (IF "W" \in edge THEN <<"write">> ELSE <<>>)
    /\ edge' = {}
    /\ UNCHANGED <<broken, read_paused, interest, rx_resume_timer, sending,
                   receiving, network, tokens, closed>>

(* Every loop leaves a connection that broke inside it. *)
Unwind ==
    /\ ~Idle /\ Head(stack) \in {"read", "extract", "write"} /\ broken
    /\ stack' = Tail(stack)
    /\ UNCHANGED <<broken, read_paused, interest, rx_resume_timer, sending,
                   receiving, network, edge, tokens, closed>>

OnWritable ==
    /\ Running("write") /\ ~broken
    /\ TryDrain(send_q, Tail(stack))
    /\ UNCHANGED <<rx_resume_timer, receiving, network, tokens, accepted>>

(* conn_handle_readable: one turn of its loop. *)
Want == Min({RecvAccCap - acc, Chunk})
Allowed == IF Limited THEN Min({Want, tokens}) ELSE Want

Read ==
    /\ Running("read") /\ ~broken /\ Want > 0 /\ Allowed > 0
    /\ sock > 0 /\ peer # "rst"
    /\ LET n == Min({Allowed, sock}) IN
       /\ sock' = sock - n /\ acc' = acc + n
       /\ tokens' = IF Limited THEN tokens - n ELSE tokens
    /\ stack' = <<"extract">> \o stack
    /\ UNCHANGED <<broken, read_paused, interest, rx_resume_timer, sending,
                   inbound, ws, taken, delivered, msg, flight, peer, wire,
                   edge, closed>>

(* EAGAIN; or recv_acc is full, which the code calls unreachable. *)
ReadEmpty ==
    /\ Running("read") /\ ~broken
    /\ Want > 0 => Allowed > 0 /\ sock = 0 /\ peer = "open"
    /\ stack' = Tail(stack)
    /\ UNCHANGED <<broken, read_paused, interest, rx_resume_timer, sending,
                   receiving, network, edge, tokens, closed>>

(* The end of the stream, or an error. *)
ReadFails ==
    /\ Running("read") /\ ~broken /\ Want > 0 /\ Allowed > 0
    /\ \/ peer = "fin" /\ sock = 0
       \/ peer = "rst"
    /\ MarkBroken /\ stack' = Tail(stack)
    /\ UNCHANGED <<read_paused, interest, rx_resume_timer, sending, receiving,
                   network, tokens>>

(* Mutant: a pause relies on the next edge. *)
PauseUntimed ==
    /\ read_paused' = TRUE
    /\ UNCHANGED <<rx_resume_timer, broken, closed, want_writable, kbuf>>
    /\ SyncInterest
(* conn_pause_read_for_rate; without a timer the connection is broken. *)
Pause ==
    \/ /\ rx_resume_timer' = TRUE /\ read_paused' = TRUE
       /\ UNCHANGED <<broken, closed, want_writable, kbuf>>
       /\ SyncInterest
    \/ /\ ~rx_resume_timer /\ TimersFail
       /\ MarkBroken
       /\ UNCHANGED <<rx_resume_timer, read_paused, interest, want_writable,
                      kbuf>>

ReadRefused ==
    /\ Running("read") /\ ~broken /\ Want > 0 /\ Allowed = 0
    /\ Pause /\ stack' = Tail(stack)
    /\ UNCHANGED <<send_q, accepted, receiving, network, tokens>>

(* conn_rx_resume_cb: the read goes on at once. *)
RxResume ==
    /\ Idle /\ rx_resume_timer /\ rx_resume_timer' = FALSE
    /\ tokens' \in Refills
    /\ UNCHANGED <<broken, closed, sending, receiving, network>>
    /\ IF broken
       THEN UNCHANGED <<read_paused, interest, edge, stack>>
       ELSE /\ read_paused' = FALSE /\ stack' = <<"read">>
            /\ SyncInterest

----------------------------------------------------------------------------
(* conn_extract_and_dispatch: one turn of its loop.  A header that is in   *)
(* hand is judged before its payload has arrived.                          *)
Extracting == Running("extract") /\ ~broken
HeaderReady == inbound # <<>> /\ acc >= HeaderLen(Head(inbound).masked)
First == Head(inbound)

(* The header is malformed or masked the wrong way, the frame is too long  *)
(* for its own or for its message's sake, or it is out of sequence.  What  *)
(* is wrong with the header alone shows at once, the rest when the whole   *)
(* frame is there.                                                         *)
Illegal ==
    \/ First.len > MaxFrameLen
    \/ IsWs /\ (First.op = "bad" \/ First.masked # PeerMasks)
    \/ /\ IsWs /\ acc >= Size(First) /\ ~Control(First)
       /\ \/ (First.op = "cont") # ws.active
          \/ First.len > MaxFrameLen - ws.len

ExtractIllegal ==
    /\ Extracting /\ HeaderReady /\ Illegal
    /\ MarkBroken /\ stack' = Tail(stack)
    /\ UNCHANGED <<read_paused, interest, rx_resume_timer, sending, receiving,
                   network, tokens>>

ExtractWaits ==
    /\ Extracting
    /\ ~(HeaderReady /\ (Illegal \/ acc >= Size(First)))
    /\ stack' = Tail(stack)
    /\ UNCHANGED <<broken, read_paused, interest, rx_resume_timer, sending,
                   receiving, network, edge, tokens, closed>>

Whole == Extracting /\ HeaderReady /\ ~Illegal /\ acc >= Size(First)
Take == /\ inbound' = Tail(inbound) /\ acc' = acc - Size(First)
        /\ taken' = Append(taken, First)

(* Mutant: a control frame ends the message it interrupts. *)
TakePingResets ==
    /\ Whole /\ First.op = "ping" /\ Take
    /\ Enqueue("pong", First.len, stack)
    /\ ws' = [ws EXCEPT !.active = FALSE, !.len = 0]
    /\ UNCHANGED <<rx_resume_timer, delivered, msg, network, tokens>>
(* A ping is answered with its own payload. *)
TakePing ==
    /\ Whole /\ First.op = "ping" /\ Take
    /\ Enqueue("pong", First.len, stack)
    /\ UNCHANGED <<rx_resume_timer, ws, delivered, msg, network, tokens>>

TakePong ==
    /\ Whole /\ First.op = "pong" /\ Take
    /\ UNCHANGED <<broken, read_paused, interest, rx_resume_timer, sending, ws,
                   delivered, msg, network, edge, tokens, closed, stack>>

(* A close is echoed as far as the kernel takes it at once, *)
TakeClose ==
    /\ Whole /\ First.op = "close" /\ Take
    /\ Enqueue("close", First.len, <<"closing">> \o stack)
    /\ UNCHANGED <<rx_resume_timer, ws, delivered, msg, network, tokens>>
(* and ends the connection. *)
CloseBreaks ==
    /\ Running("closing") /\ MarkBroken /\ stack' = Tail(stack)
    /\ UNCHANGED <<read_paused, interest, rx_resume_timer, sending, receiving,
                   network, tokens>>

(* A data frame: the message goes on, or is complete and given to the      *)
(* owner.                                                                  *)
TakeData ==
    /\ Whole /\ ~Control(First) /\ Take
    /\ IF IsWs /\ ~First.fin
       THEN /\ ws' = [ws EXCEPT !.active = TRUE, !.len = @ + First.len]
            /\ msg' = Append(msg, Len(taken) + 1)
            /\ UNCHANGED <<delivered, stack>>
       ELSE /\ ws' = [ws EXCEPT !.active = FALSE, !.len = 0]
            /\ delivered' = Append(delivered, Append(msg, Len(taken) + 1))
            /\ msg' = <<>> /\ stack' = <<"envelope">> \o stack
    /\ UNCHANGED <<broken, read_paused, interest, rx_resume_timer, sending,
                   network, edge, tokens, closed>>

----------------------------------------------------------------------------
(* The network and the peer; a descriptor that broke is not watched.       *)
Watch(events) == edge' = IF broken THEN {} ELSE edge \cup events

PeerSends(f) ==
    /\ peer = "open" /\ Len(taken) + Len(inbound) < MaxIn
    /\ inbound' = Append(inbound, f) /\ flight' = flight + Size(f)
    /\ UNCHANGED <<broken, read_paused, interest, rx_resume_timer, sending,
                   acc, ws, taken, delivered, msg, sock, peer, wire, edge,
                   tokens, stack, closed>>

(* Units arrive, in pieces of any size. *)
Arrive(n) ==
    /\ n \in 1..flight /\ peer # "rst"
    /\ flight' = flight - n /\ sock' = sock + n
    /\ Watch(interest \cap {"R"})
    /\ UNCHANGED <<broken, read_paused, interest, rx_resume_timer, sending,
                   receiving, peer, wire, tokens, stack, closed>>

PeerEnds ==
    /\ peer = "open" /\ flight = 0 /\ peer' = "fin"
    /\ Watch(interest \cap {"R"})
    /\ UNCHANGED <<broken, read_paused, interest, rx_resume_timer, sending,
                   receiving, sock, flight, wire, tokens, stack, closed>>

PeerResets ==
    /\ PeerFails /\ peer # "rst" /\ peer' = "rst" /\ Watch({"R"})
    /\ UNCHANGED <<broken, read_paused, interest, rx_resume_timer, sending,
                   receiving, sock, flight, wire, tokens, stack, closed>>

(* The peer takes what was sent; room in a full send buffer is reported. *)
Deliver ==
    /\ kbuf # <<>> /\ peer # "rst"
    /\ wire' = wire \o kbuf /\ kbuf' = <<>>
    /\ Watch(IF Len(kbuf) = SockCap THEN interest \cap {"W"} ELSE {})
    /\ UNCHANGED <<broken, read_paused, interest, rx_resume_timer, send_q,
                   want_writable, accepted, receiving, sock, flight, peer,
                   tokens, stack, closed>>

(* Steps of the connection's own code. *)
Code ==
    \/ OnEvent \/ Unwind \/ OnWritable \/ Read \/ ReadEmpty \/ ReadFails
    \/ ReadRefused \/ ExtractIllegal \/ ExtractWaits \/ TakePing \/ TakePong
    \/ TakeClose \/ CloseBreaks \/ TakeData \/ CallbackReturns
Arrives == \E n \in 1..MaxIn * (MaxFrameLen + 3) : Arrive(n)
Network ==
    \/ \E f \in InFrames[ws.framing] : PeerSends(f)
    \/ Arrives
    \/ PeerEnds \/ PeerResets \/ Deliver
Next == Code \/ RxResume \/ (\E len \in OutLens : Send(len)) \/ Network

Spec == Init /\ [][Next]_vars

(* The reactor dispatches events and timers, callbacks return, and the     *)
(* network moves what is under way.                                        *)
Fairness ==
    /\ WF_vars(Code) /\ WF_vars(RxResume) /\ WF_vars(Deliver)
    /\ WF_vars(Arrives)
FairSpec == Spec /\ Fairness

----------------------------------------------------------------------------
(* The bytes on their way out are exactly the accepted frames, whole and   *)
(* in order: partial writes neither lose nor repeat a byte, and a pong or  *)
(* a close never lands inside another frame.                               *)
SentInOrder ==
    wire \o kbuf \o send_q =
        FlattenSeq([n \in 1..Len(accepted) |-> Units(n, accepted[n][2])])

DataFrames == SelectSeq([n \in 1..Len(taken) |-> n],
                        LAMBDA n : ~Control(taken[n]))
(* What on_envelope is given is the peer's messages, in order: each starts *)
(* and ends where the peer's message does, control frames between its      *)
(* fragments are no part of it, and none is skipped.                       *)
MessagesAreWhole ==
    /\ FlattenSeq(delivered) \o msg = DataFrames
    /\ \A m \in 1..Len(delivered) : \A i \in 1..Len(delivered[m]) :
          LET f == taken[delivered[m][i]]
          IN  /\ f.fin = (i = Len(delivered[m]))
              /\ (f.op = "cont") = (i > 1)

(* No buffer is overrun, and every frame but the longest legal one leaves  *)
(* room in recv_acc: conn_handle_readable never meets a full accumulator,  *)
(* which would stop it for good.                                           *)
BuffersSuffice == TypeOK /\ (Running("read") /\ ~broken => Want > 0)

(* Every ping that was taken is answered, once and in order, unless the    *)
(* connection broke.                                                       *)
PingsAreAnswered ==
    ~broken => SelectSeq(accepted, LAMBDA a : a[1] = "pong") =
               [n \in 1..Len(SelectSeq(taken, LAMBDA f : f.op = "ping")) |->
                   <<"pong", SendEnvelope(
                       SelectSeq(taken, LAMBDA f : f.op = "ping")[n].len)>>]

(* No wake-up is lost: at rest, a connection with queued bytes waits for   *)
(* EPOLLOUT, one that stopped reading has a timer, and one that reads has  *)
(* an event pending for whatever is there to read; one that broke has told *)
(* its owner, once.                                                        *)
NoLostWakeup ==
    /\ Idle /\ ~broken =>
        /\ send_q # <<>> => /\ want_writable /\ "W" \in interest
                            /\ (Len(kbuf) < SockCap => "W" \in edge)
        /\ read_paused => rx_resume_timer
        /\ ~read_paused /\ sock > 0 => "R" \in edge
    /\ closed = IF broken THEN 1 ELSE 0

(* The owner and the peer get each other's messages whole and in order,    *)
(* and every ping has its answer.                                          *)
MessagesArrive == MessagesAreWhole /\ SentInOrder /\ PingsAreAnswered

(* Whatever is still to be sent or read will be: there is room to read it  *)
(* to, and an event, a timer or a call in progress to go on with it.       *)
NothingIsMissed == BuffersSuffice /\ NoLostWakeup

(* Both directions move, through pauses, partial reads and partial writes, *)
(* unless the connection breaks: what was accepted is sent (duty 1), what  *)
(* the peer sent is taken (2), and the producer that a full socket held    *)
(* back is told when it may resume, wherever the drain happened (3).       *)
Duty(i) == CASE i = 1 -> send_q # <<>>
             [] i = 2 -> inbound # <<>>
             [] i = 3 -> want_writable
Fulfilled(i) == \/ broken
                \/ i = 1 /\ send_q = <<>>
                \/ i = 2 /\ inbound = <<>>
                \/ i = 3 /\ Running("drained")
=============================================================================
