------------------------ MODULE OrderedStreamProofs ------------------------
(***************************************************************************)
(* For every frame size, queue capacity, heap cap and number of bytes: the *)
(* reader of OrderedStream gets the writer's bytes in order, end of stream *)
(* only behind the last of them, and is never wedged.                      *)
(*                                                                         *)
(* None of this is inductive by itself.  IInv adds what the two ends know  *)
(* about the frames in between: the frames handed to the sink cut what was *)
(* written into adjoining intervals, every frame in flight or pending is   *)
(* one of those, and the bytes received end where the next frame begins.   *)
(***************************************************************************)
EXTENDS OrderedStream, TLAPS

(* Two sequences, one after the other. *)
LEMMA SeqConcat ==
    ASSUME NEW S, NEW a \in Seq(S), NEW b \in Seq(S)
    PROVE  /\ a \o b \in Seq(S) /\ Len(a \o b) = Len(a) + Len(b)
           /\ \A i \in 1..Len(a) + Len(b) :
                (a \o b)[i] = IF i <= Len(a) THEN a[i] ELSE b[i - Len(a)]
  OBVIOUS

(* The frames handed to the sink, numbered without a gap, each beginning   *)
(* where the one before it ends; a closing frame is the last one.          *)
SentIsPartition ==
    /\ Len(sent) <= next_write_seq
    /\ ~write_closed => next_write_seq = Len(sent)
    /\ Len(sent) = 0 => written = 0
    /\ Len(sent) > 0 => sent[1].from = 0
    /\ \A k \in 1..Len(sent) :
        /\ sent[k].seq = k - 1
        /\ sent[k].closing => (k = Len(sent) /\ write_closed /\ sent[k].from = written)
        /\ ~sent[k].closing =>
            /\ sent[k].len > 0
            /\ k < Len(sent) => sent[k + 1].from = sent[k].from + sent[k].len
            /\ k = Len(sent) => written = sent[k].from + sent[k].len
            /\ sent[k].from + sent[k].len <= written

(* f is, up to the number of its copy, the frame of that seq that was sent. *)
WasSent(f) ==
    /\ f.seq < Len(sent)
    /\ f.closing = sent[f.seq + 1].closing
    /\ f.from = sent[f.seq + 1].from
    /\ f.len = sent[f.seq + 1].len

FramesWereSent == (\A f \in wire : WasSent(f)) /\ (\A f \in heap : WasSent(f))

(* Where the frame numbered s begins, or would begin. *)
Start(s) == IF s < Len(sent) THEN sent[s + 1].from ELSE written

ReceivedUpToNext ==
    /\ next_recv_seq <= Len(sent)
    /\ Len(received) = Start(next_recv_seq)
    /\ recv_closing_seen => (write_closed /\ Len(received) = written)
    /\ eof => (recv_closing_seen /\ nread = Len(received))

HeapIsSet ==
    /\ \A f \in heap : f.len <= RecvCap
    /\ \A f, g \in heap : f.seq = g.seq => f = g

(* NoWedge, with the loop of a write counted as a step outside the drain. *)
NeverWedged ==
    (pc \notin {"feed", "read"} /\ \E f \in heap : TopInOrder(f)) => Queued > 0

WriteIsOpen == pc = "write" => ~write_closed

IInv ==
    /\ TypeOK /\ SentIsPartition /\ FramesWereSent /\ ReceivedUpToNext
    /\ HeapIsSet /\ HeapIsAhead /\ InOrder /\ NeverWedged /\ WriteIsOpen

----------------------------------------------------------------------------
(* Nothing has been sent in the initial states. *)
LEMMA InitIInv == Init => IInv
<1> SUFFICES ASSUME Init PROVE IInv
  OBVIOUS
<1> USE DEF Init
<1>1. sent \in Seq(Frame) /\ received \in Seq(Nat) /\ nread \in 0..Len(received)
  OBVIOUS
<1>2. TypeOK
  BY Zenon, <1>1 DEF TypeOK
<1>3. InOrder /\ SentIsPartition
  BY DEF InOrder, SentIsPartition
<1>4. FramesWereSent /\ HeapIsSet /\ HeapIsAhead /\ NeverWedged /\ WriteIsOpen
  BY DEF FramesWereSent, HeapIsSet, HeapIsAhead, NeverWedged, WriteIsOpen
<1>5. ReceivedUpToNext
  BY DEF ReceivedUpToNext, Start
<1> QED
  BY <1>2, <1>3, <1>4, <1>5 DEF IInv

(* The fields of the frames that were sent and of those still on their way. *)
LEMMA FrameFields ==
    ASSUME TypeOK
    PROVE  /\ Len(sent) \in Nat
           /\ \A k \in 1..Len(sent) : /\ sent[k].seq \in Nat /\ sent[k].from \in Nat
                                      /\ sent[k].len \in Nat /\ sent[k].closing \in BOOLEAN
           /\ \A f \in wire \cup heap : /\ f.seq \in Nat /\ f.from \in Nat
                                        /\ f.len \in Nat /\ f.closing \in BOOLEAN
<1>1. \A k \in 1..Len(sent) : sent[k] \in Frame
  BY DEF TypeOK
<1> QED
  BY <1>1 DEF TypeOK, Frame

(* A frame cut from the write in progress extends the partition, and       *)
(* leaves the frames before it, and so all frames in flight, as they were. *)
LEMMA WriteChunkIInv == IInv /\ WriteChunk => IInv'
<1> SUFFICES ASSUME IInv, WriteChunk PROVE IInv'
  OBVIOUS
<1>1. PICK f :
      /\ f = [seq |-> next_write_seq, closing |-> FALSE, from |-> written,
              len |-> Smaller(todo, MaxPayload), copy |-> 0]
      /\ sent' = Append(sent, f) /\ wire' = wire \cup {f}
      /\ written' = written + f.len /\ todo' = todo - f.len
      /\ next_write_seq' = next_write_seq + 1
      /\ pc = "write" /\ todo > 0
      /\ UNCHANGED <<write_closed, heap, next_recv_seq, received, nread,
                     recv_closing_seen, retired, violated, eof, pc>>
  BY Zenon DEF WriteChunk, reader
<1>2. f \in Frame /\ f.len \in 1..todo /\ ~f.closing
      /\ f.seq = next_write_seq /\ f.from = written
  BY <1>1, StreamAssumption DEF IInv, TypeOK, Smaller, Frame
<1>3. TypeOK'
  <2>1. sent' \in Seq(Frame) /\ wire' \subseteq Frame
    <3>1. sent' = Append(sent, f) /\ wire' = wire \cup {f}
      BY <1>1
    <3> QED
      BY <1>2, <3>1 DEF IInv, TypeOK
  <2>2. written' \in Nat /\ todo' \in Nat /\ next_write_seq' \in Nat
    <3>1. /\ written' = written + f.len /\ todo' = todo - f.len
          /\ next_write_seq' = next_write_seq + 1
      BY <1>1
    <3> QED
      BY SMTT(20), Z3T(20), <1>2, <3>1 DEF IInv, TypeOK
  <2> QED
    BY <1>1, <2>1, <2>2 DEF IInv, TypeOK
<1>4. ~write_closed /\ next_write_seq = Len(sent)
  BY <1>1 DEF IInv, SentIsPartition, WriteIsOpen
<1>5. /\ Len(sent') = Len(sent) + 1
      /\ \A k \in 1..Len(sent) : sent'[k] = sent[k]
      /\ sent'[Len(sent) + 1] = f
  BY <1>1, <1>2 DEF IInv, TypeOK
<1> DEFINE L == Len(sent)
<1>6. SentIsPartition'
  <2>1. L \in Nat /\ written \in Nat /\ f.len \in Nat
    BY SMTT(20), Z3T(20), <1>1, <1>2, FrameFields DEF IInv, TypeOK
  <2>2. ASSUME NEW k \in 1..(L + 1)
        PROVE  /\ sent'[k].seq = k - 1
               /\ ~sent'[k].closing
               /\ sent'[k].len > 0
               /\ k < L + 1 => sent'[k + 1].from = sent'[k].from + sent'[k].len
               /\ k = L + 1 => written' = sent'[k].from + sent'[k].len
               /\ sent'[k].from + sent'[k].len <= written'
    <3>1. CASE k = L + 1
      BY <1>1, <1>2, <1>4, <1>5, <2>1, <3>1
    <3>2. CASE k \in 1..L
      <4>1. sent'[k] = sent[k] /\ sent[k].len \in Nat /\ sent[k].from \in Nat
        BY <1>5, <3>2, FrameFields DEF IInv
      <4>2. CASE k = L
        BY <1>1, <1>2, <1>4, <1>5, <2>1, <3>2, <4>1, <4>2 DEF IInv, SentIsPartition
      <4>3. CASE k < L
        <5>1. k + 1 \in 1..L /\ sent'[k + 1] = sent[k + 1]
          BY <1>5, <2>1, <3>2, <4>3
        <5>2. /\ sent[k].seq = k - 1 /\ ~sent[k].closing /\ sent[k].len > 0
              /\ sent[k + 1].from = sent[k].from + sent[k].len
              /\ sent[k].from + sent[k].len <= written
          BY <2>1, <3>2, <4>3 DEF IInv, SentIsPartition
        <5>3. written' = written + f.len /\ k # L + 1
          BY <1>1, <2>1, <4>3
        <5>4. sent[k].from + sent[k].len <= written + f.len
          <6>1. \A a, b, w, c \in Nat : a + b <= w => a + b <= w + c
            OBVIOUS
          <6> QED
            BY Zenon, <2>1, <4>1, <5>2, <6>1
        <5> QED
          BY <4>1, <5>1, <5>2, <5>3, <5>4
      <4> QED
        BY <2>1, <3>2, <4>2, <4>3
    <3> QED
      BY <2>1, <3>1, <3>2
  <2>3. sent'[1].from = 0
    BY <1>1, <1>2, <1>4, <1>5, <2>1 DEF IInv, SentIsPartition
  <2> QED
    BY <1>1, <1>4, <1>5, <2>1, <2>2, <2>3 DEF SentIsPartition
<1>7. FramesWereSent'
  <2>1. ASSUME NEW g \in wire \cup heap PROVE WasSent(g)'
    <3>1. g.seq \in Nat /\ WasSent(g) /\ L \in Nat
      BY FrameFields DEF IInv, FramesWereSent
    <3> QED
      BY <1>5, <3>1 DEF WasSent
  <2>2. WasSent(f)'
    BY <1>2, <1>4, <1>5, FrameFields DEF WasSent, IInv
  <2> QED
    BY Zenon, <1>1, <2>1, <2>2 DEF FramesWereSent
<1>8. ReceivedUpToNext'
  <2>1. L \in Nat /\ written \in Nat /\ next_recv_seq \in 0..L
    BY FrameFields DEF IInv, TypeOK, ReceivedUpToNext
  <2>2. Start(next_recv_seq)' = Start(next_recv_seq)
    BY <1>1, <1>2, <1>5, <2>1 DEF Start
  <2> QED
    BY <1>1, <1>4, <1>5, <2>1, <2>2 DEF IInv, ReceivedUpToNext
<1>9. HeapIsSet' /\ HeapIsAhead' /\ InOrder' /\ NeverWedged' /\ WriteIsOpen'
  BY <1>1 DEF IInv, HeapIsSet, HeapIsAhead, InOrder, NeverWedged, WriteIsOpen, TopInOrder, IsTop, Queued
<1> QED
  BY <1>3, <1>6, <1>7, <1>8, <1>9 DEF IInv

(* A closing frame is the last one: it begins where the writing stopped.   *)
LEMMA SendClosingIInv ==
    ASSUME IInv, NEW pad \in PadLens, SendClosing(pad) PROVE IInv'
<1>1. PICK f :
      /\ f = [seq |-> next_write_seq, closing |-> TRUE, from |-> written,
              len |-> pad, copy |-> 0]
      /\ sent' = Append(sent, f) /\ wire' = wire \cup {f}
      /\ next_write_seq' = next_write_seq + 1 /\ write_closed' = TRUE
      /\ pc = "idle" /\ ~write_closed
      /\ UNCHANGED <<written, todo, heap, next_recv_seq, received, nread,
                     recv_closing_seen, retired, violated, eof, pc>>
  BY Zenon DEF SendClosing, reader
<1>2. f \in Frame /\ f.closing /\ f.seq = next_write_seq /\ f.from = written
  BY <1>1, StreamAssumption DEF IInv, TypeOK, Frame
<1>3. TypeOK'
  <2>1. sent' = Append(sent, f) /\ wire' = wire \cup {f}
    BY <1>1
  <2>2. sent' \in Seq(Frame) /\ wire' \subseteq Frame
    BY <1>2, <2>1 DEF IInv, TypeOK
  <2> QED
    BY <1>1, <2>2 DEF IInv, TypeOK
<1> DEFINE L == Len(sent)
<1>4. next_write_seq = L /\ L \in Nat /\ written \in Nat
  BY <1>1, FrameFields DEF IInv, SentIsPartition, TypeOK
<1>5. /\ Len(sent') = L + 1
      /\ \A k \in 1..L : sent'[k] = sent[k]
      /\ sent'[L + 1] = f
  BY <1>1, <1>2 DEF IInv, TypeOK
<1>6. \A k \in 1..L : ~sent[k].closing
  BY <1>1 DEF IInv, SentIsPartition
<1>7. SentIsPartition'
  <2>1. ASSUME NEW k \in 1..L
        PROVE  /\ sent'[k].seq = k - 1 /\ ~sent'[k].closing /\ sent'[k].len > 0
               /\ sent'[k + 1].from = sent'[k].from + sent'[k].len
               /\ sent'[k].from + sent'[k].len <= written
    <3>1. /\ sent[k].seq = k - 1 /\ sent[k].len > 0
          /\ k < L => sent[k + 1].from = sent[k].from + sent[k].len
          /\ k = L => written = sent[k].from + sent[k].len
          /\ sent[k].from + sent[k].len <= written
      BY <1>6 DEF IInv, SentIsPartition
    <3>2. CASE k = L
      BY <1>2, <1>4, <1>5, <1>6, <3>1, <3>2
    <3>3. CASE k < L
      <4>1. k + 1 \in 1..L
        BY <1>4, <3>3
      <4> QED
        BY <1>5, <1>6, <3>1, <3>3, <4>1
    <3> QED
      BY <1>4, <3>2, <3>3
  <2>2. sent'[1].from = 0
    BY <1>2, <1>4, <1>5 DEF IInv, SentIsPartition
  <2> QED
    BY <1>1, <1>2, <1>4, <1>5, <2>1, <2>2 DEF SentIsPartition
<1>8. FramesWereSent'
  <2>1. ASSUME NEW g \in wire \cup heap PROVE WasSent(g)'
    <3>1. g.seq \in Nat /\ WasSent(g)
      BY FrameFields DEF IInv, FramesWereSent
    <3> QED
      BY <1>4, <1>5, <3>1 DEF WasSent
  <2>2. WasSent(f)'
    <3>1. f.seq = L /\ sent'[f.seq + 1] = f
      BY <1>2, <1>4, <1>5
    <3> QED
      BY <1>4, <1>5, <3>1 DEF WasSent
  <2> QED
    BY Zenon, <1>1, <2>1, <2>2 DEF FramesWereSent
<1>9. ReceivedUpToNext'
  <2>1. next_recv_seq \in 0..L
    BY <1>4 DEF IInv, TypeOK, ReceivedUpToNext
  <2>2. Start(next_recv_seq)' = Start(next_recv_seq)
    BY <1>1, <1>2, <1>4, <1>5, <2>1 DEF Start
  <2> QED
    BY <1>1, <1>4, <1>5, <2>1, <2>2 DEF IInv, ReceivedUpToNext
<1>10. HeapIsSet' /\ HeapIsAhead' /\ InOrder' /\ NeverWedged' /\ WriteIsOpen'
  BY <1>1 DEF IInv, HeapIsSet, HeapIsAhead, InOrder, NeverWedged, WriteIsOpen, TopInOrder, IsTop, Queued
<1> QED
  BY <1>3, <1>7, <1>8, <1>9, <1>10 DEF IInv

(* A step of the writing end that sends nothing. *)
LEMMA QuietWriterIInv ==
    ASSUME IInv,
           (\E n \in 1..MaxBytes : Write(n)) \/ WriteDone \/ WriteSinkFails \/ SendClosingSinkFails
    PROVE  IInv'
<1>1. /\ UNCHANGED <<written, sent, wire, heap, next_recv_seq, received, nread,
                     recv_closing_seen, retired, violated, eof>>
      /\ next_write_seq' \in Nat /\ next_write_seq' >= next_write_seq
      /\ write_closed' \in BOOLEAN /\ (write_closed => write_closed')
      /\ ~write_closed' => next_write_seq' = next_write_seq
      /\ todo' \in Nat
      /\ {pc, pc'} \subseteq {"idle", "write"}
      /\ pc' = "write" => ~write_closed'
  <2>1. CASE \E n \in 1..MaxBytes : Write(n)
    BY <2>1, StreamAssumption DEF IInv, TypeOK, Write
  <2>2. CASE WriteDone
    BY <2>2 DEF IInv, TypeOK, WriteDone, writer
  <2>3. CASE WriteSinkFails
    BY <2>3 DEF IInv, TypeOK, WriteSinkFails
  <2>4. CASE SendClosingSinkFails
    BY <2>4 DEF IInv, TypeOK, SendClosingSinkFails, reader
  <2> QED
    BY <2>1, <2>2, <2>3, <2>4
<1>2. TypeOK'
  BY <1>1 DEF IInv, TypeOK
<1>3. SentIsPartition'
  BY <1>1, FrameFields DEF IInv, TypeOK, SentIsPartition
<1>4. FramesWereSent' /\ ReceivedUpToNext'
  BY <1>1 DEF IInv, FramesWereSent, WasSent, ReceivedUpToNext, Start
<1>5. HeapIsSet' /\ HeapIsAhead' /\ InOrder' /\ NeverWedged' /\ WriteIsOpen'
  BY <1>1 DEF IInv, HeapIsSet, HeapIsAhead, InOrder, NeverWedged, WriteIsOpen, TopInOrder, IsTop, Queued
<1> QED
  BY <1>2, <1>3, <1>4, <1>5 DEF IInv

(* What the wire holds after a frame left it was sent, copies included. *)
LEMMA TakeFromWireSent ==
    ASSUME IInv, NEW f \in wire, TakeFromWire(f), sent' = sent
    PROVE  wire' \subseteq Frame /\ \A g \in wire' : WasSent(g)'
<1>1. f \in Frame /\ WasSent(f)
  BY DEF IInv, TypeOK, FramesWereSent
<1> DEFINE h == [f EXCEPT !.copy = 1]
<1>3. h \in Frame /\ h.seq = f.seq /\ h.closing = f.closing /\ h.from = f.from /\ h.len = f.len
  BY <1>1 DEF Frame
<1>4. WasSent(h)
  BY <1>1, <1>3 DEF WasSent
<1>5. \A g \in wire' : g \in wire \/ g = h
  BY DEF TakeFromWire
<1>6. ASSUME NEW g \in wire' PROVE g \in Frame /\ WasSent(g)
  BY Zenon, <1>3, <1>4, <1>5 DEF IInv, TypeOK, FramesWereSent
<1> QED
  BY <1>6 DEF WasSent

(* A frame delivered to the reading end: dropped, refused, or put on the   *)
(* heap.  The tests of Acceptable are what keeps the heap a set of awaited *)
(* frames the queue can hold.                                              *)
LEMMA DeliverIInv == ASSUME IInv, NEW f \in wire, Deliver(f) PROVE IInv'
<1>1. TakeFromWire(f) /\ UNCHANGED <<writer, next_recv_seq, received, nread, recv_closing_seen, eof>>
  BY DEF Deliver, FeedRetired, FeedAccept, FeedViolation, reader
<1>2. sent' = sent /\ f \in Frame /\ WasSent(f)
  BY <1>1 DEF writer, IInv, TypeOK, FramesWereSent
<1>3. wire' \subseteq Frame /\ \A g \in wire' : WasSent(g)'
  BY <1>1, <1>2, TakeFromWireSent
<1>4. SentIsPartition' /\ ReceivedUpToNext' /\ InOrder'
  BY <1>1, <1>2 DEF IInv, writer, SentIsPartition, ReceivedUpToNext, Start, InOrder
<1>5. CASE FeedAccept(f)
  <2>1. heap' = heap \cup {f} /\ pc' = "feed" /\ Acceptable(f) /\ UNCHANGED <<retired, violated>>
    BY <1>5 DEF FeedAccept
  <2>2. TypeOK'
    BY <1>1, <1>2, <1>3, <2>1 DEF IInv, TypeOK, writer
  <2>3. FramesWereSent'
    <3>1. WasSent(f)' /\ \A g \in heap : WasSent(g)'
      BY <1>2 DEF IInv, FramesWereSent, WasSent
    <3> QED
      BY <1>3, <2>1, <3>1 DEF FramesWereSent
  <2>4. HeapIsSet' /\ HeapIsAhead'
    BY <1>1, <2>1 DEF IInv, HeapIsSet, HeapIsAhead, Acceptable
  <2>5. NeverWedged' /\ WriteIsOpen'
    BY <2>1 DEF NeverWedged, WriteIsOpen
  <2> QED
    BY <1>4, <2>2, <2>3, <2>4, <2>5 DEF IInv
<1>6. CASE FeedRetired(f) \/ FeedViolation(f)
  <2>1. /\ UNCHANGED <<heap, pc>> /\ pc = "idle"
        /\ retired' \in BOOLEAN /\ violated' \in BOOLEAN
    BY Zenon, <1>6 DEF FeedRetired, FeedViolation, reader, IInv, TypeOK
  <2>2. TypeOK'
    BY SMTT(20), Z3T(20), <1>1, <1>3, <2>1 DEF IInv, TypeOK, writer
  <2>3. FramesWereSent'
    BY <1>2, <1>3, <2>1 DEF IInv, FramesWereSent, WasSent
  <2>4. HeapIsSet' /\ HeapIsAhead' /\ NeverWedged' /\ WriteIsOpen'
    BY <1>1, <2>1 DEF IInv, HeapIsSet, HeapIsAhead, NeverWedged, WriteIsOpen, TopInOrder, IsTop, Queued
  <2> QED
    BY <1>4, <2>2, <2>3, <2>4 DEF IInv
<1> QED
  BY <1>5, <1>6 DEF Deliver

(* try_drain appends the payload of the next frame: it begins where the    *)
(* bytes received end, so they stay the positions 1, 2, 3, ...             *)
LEMMA DrainDataIInv == ASSUME IInv, NEW f \in heap, DrainData(f) PROVE IInv'
<1>1. /\ pc \in {"feed", "read"} /\ TopInOrder(f) /\ ~f.closing
      /\ heap' = heap \ {f} /\ received' = received \o Payload(f)
      /\ next_recv_seq' = next_recv_seq + 1
      /\ UNCHANGED <<writer, wire, nread, recv_closing_seen, retired, violated, eof, pc>>
  BY DEF DrainData, Drainable
<1>2. /\ f.seq = next_recv_seq /\ f.from \in Nat /\ f.len \in Nat
      /\ next_recv_seq \in Nat /\ Len(sent) \in Nat /\ written \in Nat
  BY <1>1, FrameFields DEF IInv, TypeOK, TopInOrder
<1> DEFINE k == next_recv_seq + 1
<1>3. /\ k \in 1..Len(sent)
      /\ sent[k].from = f.from /\ sent[k].len = f.len /\ ~sent[k].closing
  BY <1>1, <1>2 DEF IInv, FramesWereSent, WasSent
<1>4. Len(received) = f.from
  BY <1>2, <1>3 DEF IInv, ReceivedUpToNext, Start
<1>5. /\ received' \in Seq(Nat)
      /\ Len(received') = f.from + f.len
      /\ \A i \in 1..Len(received') : received'[i] = i
  <2>1. PICK p \in Seq(Nat) : /\ p = Payload(f) /\ Len(p) = f.len
                              /\ \A i \in 1..f.len : p[i] = f.from + i
    <3>1. Payload(f) \in Seq(Nat) /\ Len(Payload(f)) = f.len
      BY <1>2 DEF Payload
    <3>2. \A i \in 1..f.len : Payload(f)[i] = f.from + i
      BY <1>2 DEF Payload
    <3> QED
      BY <3>1, <3>2
  <2>2. /\ received' \in Seq(Nat)
        /\ Len(received') = Len(received) + f.len
        /\ \A i \in 1..Len(received') :
              received'[i] = IF i <= Len(received) THEN received[i]
                             ELSE p[i - Len(received)]
    <3>1. received \in Seq(Nat) /\ received' = received \o p
      BY <1>1, <2>1 DEF IInv, TypeOK
    <3>2. /\ received \o p \in Seq(Nat)
          /\ Len(received \o p) = Len(received) + Len(p)
          /\ \A i \in 1..(Len(received) + Len(p)) :
                (received \o p)[i] = IF i <= Len(received) THEN received[i] ELSE p[i - Len(received)]
      BY <3>1, SeqConcat, Zenon
    <3> QED
      BY <2>1, <3>1, <3>2, Zenon
  <2>3. ASSUME NEW i \in 1..Len(received') PROVE received'[i] = i
    <3>1. CASE i <= Len(received)
      <4>1. i \in 1..Len(received)
        BY <1>2, <1>4, <2>2, <3>1
      <4> QED
        BY Zenon, <2>2, <3>1, <4>1 DEF IInv, InOrder
    <3>2. CASE i > Len(received)
      <4>1. i - f.from \in 1..f.len
        BY SMTT(20), Z3T(20), <1>2, <1>4, <2>2, <3>2
      <4> QED
        <5>1. received'[i] = p[i - f.from] /\ p[i - f.from] = f.from + (i - f.from)
          BY SMTT(20), Z3T(20), <1>4, <2>1, <2>2, <3>2, <4>1
        <5> QED
          BY <1>2, <2>2, <5>1
    <3> QED
      BY <1>2, <1>4, <2>2, <3>1, <3>2
  <2> QED
    BY <1>4, <2>2, <2>3
<1>6. TypeOK'
  BY SMTT(20), Z3T(20), <1>1, <1>2, <1>4, <1>5 DEF IInv, TypeOK, writer
<1>7. SentIsPartition' /\ FramesWereSent'
  BY SMTT(20), Z3T(20), <1>1 DEF IInv, writer, SentIsPartition, FramesWereSent, WasSent
<1>8. ReceivedUpToNext'
  <2>1. /\ f.len > 0 /\ f.from + f.len <= written
        /\ k < Len(sent) => sent[k + 1].from = f.from + f.len
        /\ k = Len(sent) => written = f.from + f.len
    BY <1>2, <1>3 DEF IInv, SentIsPartition
  <2>2. ~recv_closing_seen /\ ~eof
    BY <1>2, <1>4, <2>1 DEF IInv, ReceivedUpToNext
  <2>3. Start(k) = f.from + f.len
    BY <1>2, <1>3, <2>1 DEF Start
  <2> QED
    BY <1>1, <1>2, <1>3, <1>5, <2>2, <2>3 DEF ReceivedUpToNext, Start, writer
<1>9. HeapIsSet' /\ HeapIsAhead'
  <2>1. ASSUME NEW g \in heap' PROVE g.seq >= next_recv_seq + 1
    <3>1. g \in heap /\ g # f /\ g.seq \in Nat
      BY <1>1, FrameFields DEF IInv
    <3>2. g.seq # f.seq /\ g.seq >= next_recv_seq
      BY <3>1 DEF IInv, HeapIsSet, HeapIsAhead
    <3> QED
      BY <1>2, <3>1, <3>2
  <2> QED
    BY <1>1, <2>1 DEF IInv, HeapIsSet, HeapIsAhead
<1>10. InOrder' /\ NeverWedged' /\ WriteIsOpen'
  BY <1>1, <1>5 DEF InOrder, NeverWedged, WriteIsOpen
<1> QED
  BY <1>6, <1>7, <1>8, <1>9, <1>10 DEF IInv

(* The closing frame is the last one, so every byte before it has arrived. *)
LEMMA DrainClosingIInv == ASSUME IInv, NEW f \in heap, DrainClosing(f) PROVE IInv'
<1>1. /\ pc \in {"feed", "read"} /\ TopInOrder(f) /\ f.closing
      /\ heap' = heap \ {f} /\ recv_closing_seen' = TRUE
      /\ retired' \in BOOLEAN /\ pc' = "idle"
      /\ UNCHANGED <<writer, wire, next_recv_seq, received, nread, violated, eof>>
  BY DEF DrainClosing, Drainable
<1>2. f.seq = next_recv_seq /\ next_recv_seq \in Nat /\ Len(sent) \in Nat
  BY SMTT(20), Z3T(20), <1>1, FrameFields DEF IInv, TypeOK, TopInOrder
<1> DEFINE k == next_recv_seq + 1
<1>3. k \in 1..Len(sent) /\ sent[k].closing
  BY SMTT(20), Z3T(20), <1>1, <1>2 DEF IInv, FramesWereSent, WasSent
<1>4. write_closed /\ Len(received) = written
  BY <1>2, <1>3 DEF IInv, SentIsPartition, ReceivedUpToNext, Start
<1>5. TypeOK'
  BY SMTT(20), Z3T(20), <1>1 DEF IInv, TypeOK, writer
<1>6. SentIsPartition' /\ FramesWereSent' /\ HeapIsSet' /\ HeapIsAhead' /\ InOrder'
  BY <1>1 DEF IInv, writer, SentIsPartition, FramesWereSent, WasSent, HeapIsSet, HeapIsAhead, InOrder
<1>7. ReceivedUpToNext' /\ WriteIsOpen'
  BY <1>1, <1>4 DEF IInv, ReceivedUpToNext, Start, writer, WriteIsOpen
<1>8. NeverWedged'
  <2>1. \A g \in heap' : g.seq # next_recv_seq
    BY <1>1, <1>2 DEF IInv, HeapIsSet
  <2> QED
    BY <1>1, <2>1 DEF NeverWedged, TopInOrder
<1> QED
  BY <1>5, <1>6, <1>7, <1>8 DEF IInv

(* try_drain leaves the next frame pending only when it does not fit, and  *)
(* it does not fit only when the queue holds something.                    *)
LEMMA DrainStopIInv == ASSUME IInv, DrainStop PROVE IInv'
<1>1. /\ pc \in {"feed", "read"} /\ \A f \in heap : ~Drainable(f)
      /\ pc' = "idle"
      /\ UNCHANGED <<writer, wire, heap, next_recv_seq, received, nread,
                     recv_closing_seen, retired, violated, eof>>
  BY DEF DrainStop
<1>2. TypeOK'
  BY SMTT(20), Z3T(20), <1>1 DEF IInv, TypeOK, writer
<1>3. SentIsPartition' /\ FramesWereSent' /\ HeapIsSet' /\ HeapIsAhead' /\ InOrder'
  BY <1>1 DEF IInv, writer, SentIsPartition, FramesWereSent, WasSent, HeapIsSet, HeapIsAhead, InOrder
<1>4. ReceivedUpToNext' /\ WriteIsOpen'
  BY <1>1 DEF IInv, ReceivedUpToNext, Start, writer, WriteIsOpen
<1>5. NeverWedged'
  <2>1. ASSUME NEW f \in heap, TopInOrder(f) PROVE Queued > 0
    <3>1. f.len \in Nat /\ f.len <= RecvCap /\ Queued \in Nat /\ RecvCap \in Nat
      BY FrameFields, StreamAssumption DEF IInv, TypeOK, HeapIsSet, Queued
    <3>2. ~(f.len <= RecvCap - Queued)
      BY <1>1, <2>1 DEF Drainable
    <3> QED
      BY <3>1, <3>2
  <2> QED
    BY <1>1, <2>1 DEF NeverWedged, TopInOrder, IsTop, Queued
<1> QED
  BY <1>2, <1>3, <1>4, <1>5 DEF IInv

(* The consumer of the reading end reads, learns of the end, or closes. *)
LEMMA ConsumerIInv == ASSUME IInv, ReaderNext \/ CloseLocally PROVE IInv'
<1>1. /\ UNCHANGED <<writer, wire, heap, next_recv_seq, received, recv_closing_seen, violated>>
      /\ nread' \in nread..Len(received) /\ nread \in Nat /\ Len(received) \in Nat
      /\ retired' \in BOOLEAN /\ eof' \in BOOLEAN
      /\ pc = "idle" /\ pc' \in {"idle", "read"}
      /\ pc' = "idle" => nread' = nread
      /\ eof' => (recv_closing_seen /\ nread' = Len(received))
  <2>1. /\ nread \in Nat /\ Len(received) \in Nat /\ nread <= Len(received)
        /\ eof => (recv_closing_seen /\ nread = Len(received))
        /\ retired \in BOOLEAN /\ eof \in BOOLEAN
    BY DEF IInv, TypeOK, ReceivedUpToNext
  <2>2. CASE CloseLocally
    BY <2>1, <2>2 DEF CloseLocally
  <2>3. CASE ReadEof
    BY <2>1, <2>3 DEF ReadEof, Queued
  <2>4. CASE \E cap \in 1..RecvCap : Read(cap)
    BY <2>1, <2>4, StreamAssumption DEF Read, Queued, Smaller
  <2> QED
    BY <2>2, <2>3, <2>4 DEF ReaderNext
<1>2. TypeOK'
  BY SMTT(20), Z3T(20), <1>1 DEF IInv, TypeOK, writer
<1>3. SentIsPartition' /\ FramesWereSent' /\ HeapIsSet' /\ HeapIsAhead' /\ InOrder'
  BY <1>1 DEF IInv, writer, SentIsPartition, FramesWereSent, WasSent, HeapIsSet, HeapIsAhead, InOrder
<1>4. ReceivedUpToNext' /\ WriteIsOpen'
  BY <1>1 DEF IInv, ReceivedUpToNext, Start, writer, WriteIsOpen
<1>5. NeverWedged'
  BY <1>1 DEF IInv, NeverWedged, TopInOrder, IsTop, Queued
<1> QED
  BY <1>2, <1>3, <1>4, <1>5 DEF IInv

(* Every step of both ends preserves the inductive invariant. *)
LEMMA NextIInv == IInv /\ [Next]_vars => IInv'
<1> SUFFICES ASSUME IInv, [Next]_vars PROVE IInv'
  OBVIOUS
<1>1. CASE WriterNext
  BY <1>1, WriteChunkIInv, SendClosingIInv, QuietWriterIInv DEF WriterNext
<1>2. CASE \E f \in wire : Deliver(f)
  BY <1>2, DeliverIInv
<1>3. CASE Drain
  BY <1>3, DrainDataIInv, DrainClosingIInv, DrainStopIInv DEF Drain
<1>4. CASE ReaderNext \/ CloseLocally
  BY <1>4, ConsumerIInv
<1>5. CASE UNCHANGED vars
  <2>1. UNCHANGED <<next_write_seq, write_closed, written, todo, sent, wire, heap, next_recv_seq,
                    received, nread, recv_closing_seen, retired, violated, eof, pc>>
    BY ZenonT(30), <1>5 DEF vars, writer, reader
  <2>2. TypeOK' /\ SentIsPartition' /\ FramesWereSent' /\ ReceivedUpToNext'
    BY <2>1 DEF IInv, TypeOK, SentIsPartition, FramesWereSent, WasSent, ReceivedUpToNext, Start
  <2>3. HeapIsSet' /\ HeapIsAhead' /\ InOrder' /\ NeverWedged' /\ WriteIsOpen'
    BY <2>1 DEF IInv, HeapIsSet, HeapIsAhead, InOrder, NeverWedged, TopInOrder, IsTop, Queued, WriteIsOpen
  <2> QED
    BY <2>2, <2>3 DEF IInv
<1> QED
  BY <1>1, <1>2, <1>3, <1>4, <1>5 DEF Next

----------------------------------------------------------------------------
(* The inductive invariant holds in every reachable state. *)
LEMMA Invariance == Spec => []IInv
  BY InitIInv, NextIInv, PTL DEF Spec

(* The reading end stays well typed, cloak_stream_read never returning     *)
(* more than try_drain has put into the byte queue.                        *)
THEOREM TypeCorrect == Spec => []TypeOK
<1>1. IInv => TypeOK
  BY DEF IInv
<1> QED
  BY <1>1, Invariance, PTL

(* try_drain delivers the written bytes once each and in order, for every  *)
(* order in which the pool's connections deliver the frames, and with a    *)
(* peer that repeats frames.                                               *)
THEOREM DeliveredInOrder == Spec => []InOrder
<1>1. IInv => InOrder
  BY DEF IInv
<1> QED
  BY <1>1, Invariance, PTL

(* cloak_stream_read returns end of stream only behind the last byte that  *)
(* was written before the closing frame.                                   *)
THEOREM EndOfStreamIsComplete == Spec => []EofIsComplete
<1>1. IInv => EofIsComplete
  BY DEF IInv, EofIsComplete, ReceivedUpToNext
<1> QED
  BY <1>1, Invariance, PTL

(* The heap only holds awaited frames, and the next one waits there only   *)
(* behind bytes whose reading retries the drain.                           *)
THEOREM NeverStuck == Spec => [](NoWedge /\ HeapIsAhead)
<1>1. IInv => NoWedge /\ HeapIsAhead
  BY DEF IInv, NeverWedged, NoWedge
<1> QED
  BY <1>1, Invariance, PTL

----------------------------------------------------------------------------
(* No byte is received that was not written. *)
OnlyWritten == /\ Len(received) <= written
               /\ eof => (write_closed /\ nread = written)

(* The next frame begins inside what was written. *)
LEMMA ReceivedIsWritten == IInv => OnlyWritten
<1> SUFFICES ASSUME IInv PROVE OnlyWritten
  OBVIOUS
<1> USE DEF OnlyWritten
<1>1. /\ next_recv_seq \in Nat /\ written \in Nat /\ Len(sent) \in Nat
      /\ next_recv_seq < Len(sent) => next_recv_seq + 1 \in 1..Len(sent)
  BY FrameFields DEF IInv, TypeOK
<1>2. CASE next_recv_seq < Len(sent)
  <2> DEFINE k == next_recv_seq + 1
  <2>1. /\ k \in 1..Len(sent) /\ sent[k].from \in Nat /\ sent[k].len \in Nat
        /\ sent[k].from = written \/ sent[k].from + sent[k].len <= written
    BY Zenon, <1>1, <1>2, FrameFields DEF IInv, SentIsPartition
  <2>2. Len(received) = sent[k].from
    BY <1>2 DEF IInv, ReceivedUpToNext, Start
  <2> QED
    BY <1>1, <2>1, <2>2 DEF IInv, ReceivedUpToNext
<1>3. CASE ~(next_recv_seq < Len(sent))
  BY <1>1, <1>3 DEF IInv, ReceivedUpToNext, Start
<1> QED
  BY <1>2, <1>3

(* What has been read is the bytes 1, 2, ..., nread. *)
ReadPrefix ==
    /\ SubSeq(received, 1, nread) = [i \in 1..nread |-> i]
    /\ Len(SubSeq(received, 1, nread)) = nread

(* It is, because try_drain appends in order. *)
LEMMA ReadIsPrefix == IInv => ReadPrefix
<1> SUFFICES ASSUME IInv PROVE ReadPrefix
  OBVIOUS
<1>1. received \in Seq(Nat) /\ nread \in 0..Len(received)
  BY DEF IInv, TypeOK
<1>2. /\ SubSeq(received, 1, nread) = [i \in 1..nread |-> received[i]]
      /\ Len(SubSeq(received, 1, nread)) = nread
  BY <1>1
<1>3. \A i \in 1..nread : received[i] = i
  BY <1>1 DEF IInv, InOrder
<1> QED
  BY Zenon, <1>2, <1>3 DEF ReadPrefix

(* A stream over a pool of connections is, for the applications at its     *)
(* ends, the byte stream of ByteStream: every step of writer, pool and     *)
(* reader accepts bytes, gives bytes, ends the stream or changes nothing   *)
(* they can see.                                                           *)
THEOREM Refinement == Spec => ImplementsByteStream
<1>1. Init => Promise!Init
  <2> SUFFICES ASSUME Init PROVE Promise!Init
    OBVIOUS
  <2>1. SubSeq(received, 1, nread) = << >>
    BY DEF Init
  <2> QED
    BY <2>1 DEF Init, Promise!Init
<1>2. IInv /\ IInv' /\ [Next]_vars => [Promise!Next]_(Promise!vars)
  <2> SUFFICES ASSUME IInv, IInv', [Next]_vars PROVE [Promise!Next]_(Promise!vars)
    OBVIOUS
  <2> DEFINE out == SubSeq(received, 1, nread)
  <2>a. (IInv => ReadPrefix)' /\ (IInv => OnlyWritten)'
    BY ReadIsPrefix, ReceivedIsWritten, PTL
  <2>1. /\ out = [i \in 1..nread |-> i] /\ Len(out) = nread
        /\ out' = [i \in 1..nread' |-> i]
    BY Zenon, <2>a, ReadIsPrefix DEF ReadPrefix
  <2>2. written \in Nat /\ nread \in Nat /\ Len(received) \in Nat /\ nread <= Len(received)
    BY DEF IInv, TypeOK
  <2>3. CASE WriterNext
    <3>1. /\ UNCHANGED <<nread, eof>> /\ write_closed' \in BOOLEAN /\ written' >= written
          /\ write_closed => UNCHANGED <<written, write_closed>>
      <4>1. CASE WriteChunk
        BY <2>2, <4>1, StreamAssumption DEF WriteChunk, reader, IInv, TypeOK, Smaller, WriteIsOpen
      <4>2. CASE WriteDone \/ \E n \in 1..MaxBytes : Write(n)
        BY <2>2, <4>2 DEF Write, WriteDone, writer, IInv, TypeOK
      <4>3. CASE WriteSinkFails \/ SendClosingSinkFails
        <5>1. /\ UNCHANGED <<written, nread, eof>> /\ write_closed' = TRUE
              /\ ~write_closed
          BY <4>3 DEF WriteSinkFails, SendClosingSinkFails, reader, IInv, WriteIsOpen
        <5>2. written' >= written
          BY <2>2, <5>1
        <5> QED
          BY <5>1, <5>2, Zenon
      <4>4. CASE \E pad \in PadLens : SendClosing(pad)
        <5>1. /\ UNCHANGED <<written, nread, eof>> /\ write_closed' = TRUE
              /\ ~write_closed
          BY <4>4 DEF SendClosing, reader
        <5>2. written' >= written
          BY <2>2, <5>1
        <5> QED
          BY <5>1, <5>2, Zenon
      <4> QED
        BY SMTT(20), Z3T(20), <2>3, <4>1, <4>2, <4>3, <4>4 DEF WriterNext
    <3>2. UNCHANGED out
      BY Zenon, <2>1, <3>1
    <3> QED
      BY Zenon, <3>1, <3>2 DEF Promise!Next, Promise!Accept, Promise!vars
  <2>4. CASE (\E f \in wire : Deliver(f)) \/ Drain \/ CloseLocally \/ UNCHANGED vars
    <3>1. UNCHANGED <<written, write_closed, nread, eof>>
      BY <2>4 DEF Deliver, FeedRetired, FeedAccept, FeedViolation, Drain, DrainData, DrainClosing,
                  DrainStop, CloseLocally, writer, reader, vars
    <3>2. UNCHANGED out
      BY Zenon, <2>1, <3>1
    <3> QED
      BY ZenonT(30), <3>1, <3>2 DEF Promise!vars
  <2>5. CASE \E cap \in 1..RecvCap : Read(cap)
    <3>1. /\ nread' \in (nread + 1)..Len(received) /\ UNCHANGED <<written, write_closed, eof>>
          /\ nread < Len(received)
      BY <2>2, <2>5, StreamAssumption DEF Read, Queued, Smaller, writer
    <3>2. ~eof /\ Len(received) <= written
      BY <2>2, <3>1, ReceivedIsWritten DEF OnlyWritten, IInv, ReceivedUpToNext
    <3>3. nread' \in (Len(out) + 1)..written
      BY <2>1, <2>2, <3>1, <3>2
    <3> QED
      BY Zenon, <2>1, <3>1, <3>2, <3>3 DEF Promise!Next, Promise!Give
  <2>6. CASE ReadEof
    <3>1. eof' /\ eof' = TRUE /\ UNCHANGED <<written, write_closed, nread, received>>
      BY <2>6 DEF ReadEof, writer
    <3>2. write_closed /\ nread = written
      <4>1. write_closed' /\ nread' = written'
        BY <2>a, <3>1 DEF OnlyWritten
      <4> QED
        BY <3>1, <4>1
    <3> QED
      BY Zenon, <2>1, <3>1, <3>2 DEF Promise!Next, Promise!End
  <2> QED
    BY <2>3, <2>4, <2>5, <2>6 DEF Next, ReaderNext
<1> QED
  BY <1>1, <1>2, Invariance, PTL DEF Spec, ImplementsByteStream, Promise!Spec

----------------------------------------------------------------------------
(* What a frame that is no repeat may rely on: it is alone with its number *)
(* on the wire, the reader still waits for that number and has not         *)
(* buffered it, and the heap is within its cap.                            *)
FirstCopies ==
    /\ IsFiniteSet(heap) /\ Cardinality(heap) <= MaxPending
    /\ \A f, g \in wire : f.seq = g.seq => f = g
    /\ \A f \in wire : f.copy = 0 =>
           /\ ~recv_closing_seen /\ f.seq >= next_recv_seq
           /\ \A g \in heap : g.seq # f.seq

(* What the library's theorems say about counting the heap. *)
CountFacts ==
    /\ IsFiniteSet({}) /\ Cardinality({}) = 0
    /\ \A S : IsFiniteSet(S) =>
          /\ Cardinality(S) \in Nat
          /\ \A x : x \notin S => /\ IsFiniteSet(S \cup {x})
                                /\ Cardinality(S \cup {x}) = Cardinality(S) + 1
          /\ \A x \in S : /\ IsFiniteSet(S \ {x})
                          /\ Cardinality(S \ {x}) = Cardinality(S) - 1

(* Nothing is on the wire in the initial states. *)
LEMMA InitFirstCopies == CountFacts /\ Init => FirstCopies
  BY StreamAssumption DEF Init, FirstCopies, CountFacts

(* A frame put on the wire has a number the reader has not met, and it is  *)
(* sent only while no closing frame was.                                   *)
LEMMA SendFirstCopies ==
    ASSUME IInv, FirstCopies, NEW f, ~write_closed,
           f.seq = next_write_seq, wire' = wire \cup {f}, UNCHANGED reader
    PROVE  FirstCopies'
<1>1. /\ UNCHANGED <<heap, next_recv_seq, recv_closing_seen>>
      /\ f.seq = Len(sent) /\ Len(sent) \in Nat /\ next_recv_seq \in Nat
      /\ next_recv_seq <= Len(sent) /\ ~recv_closing_seen
  BY DEF reader, IInv, TypeOK, SentIsPartition, ReceivedUpToNext
<1>2. \A g \in wire \cup heap : g.seq \in Nat /\ g.seq < Len(sent)
  BY <1>1 DEF IInv, TypeOK, Frame, FramesWereSent, WasSent
<1> QED
  BY SMTT(20), Z3T(20), <1>1, <1>2 DEF FirstCopies

(* Taking a frame from the wire leaves at most its repeat there. *)
LEMMA TakenFirstCopies ==
    ASSUME IInv, FirstCopies, NEW f \in wire, TakeFromWire(f)
    PROVE  /\ \A g, h \in wire' : g.seq = h.seq => g = h
           /\ \A g \in wire' : g.copy = 0 => g \in wire /\ g.seq # f.seq
           /\ wire \ wire' \subseteq {f}
<1>1. f \in Frame /\ \A g \in wire : g.seq = f.seq => g = f
  BY DEF IInv, TypeOK, FirstCopies
<1>2. CASE wire' = wire \ {f}
  BY <1>1, <1>2 DEF FirstCopies
<1>3. CASE /\ Repeats /\ f.copy = 0
           /\ wire' = (wire \ {f}) \cup {[f EXCEPT !.copy = 1]}
  <2>1. PICK r : r = [f EXCEPT !.copy = 1]
    BY Zenon
  <2>2. r.seq = f.seq /\ r.copy = 1
    BY <1>1, <2>1 DEF Frame
  <2>3. wire' = (wire \ {f}) \cup {r}
    BY <1>3, <2>1
  <2> QED
    BY <1>1, <2>2, <2>3 DEF FirstCopies
<1> QED
  BY <1>2, <1>3 DEF TakeFromWire

(* What the tests of cloak_stream_feed_frame let into the heap is no       *)
(* number of a first copy that is still to come.                           *)
LEMMA DeliverFirstCopies ==
    ASSUME CountFacts, IInv, FirstCopies, NEW f \in wire, Deliver(f) PROVE FirstCopies'
<1>1. TakeFromWire(f) /\ UNCHANGED <<next_recv_seq, recv_closing_seen>>
  BY DEF Deliver, FeedRetired, FeedAccept, FeedViolation, reader
<1>2. /\ \A g, h \in wire' : g.seq = h.seq => g = h
      /\ \A g \in wire' : g.copy = 0 => g \in wire /\ g.seq # f.seq
  BY <1>1, TakenFirstCopies
<1>3. CASE FeedAccept(f)
  <2>1. /\ heap' = heap \cup {f} /\ Cardinality(heap) < MaxPending
        /\ IsFiniteSet(heap)
    BY <1>3 DEF FeedAccept, Acceptable, FirstCopies
  <2>2. /\ IsFiniteSet(heap') /\ Cardinality(heap) \in Nat
        /\ Cardinality(heap') = Cardinality(heap) + 1
    <3>1. f \notin heap
      BY <1>3 DEF FeedAccept, Acceptable
    <3> QED BY Zenon, <2>1, <3>1 DEF CountFacts
  <2>3. Cardinality(heap') <= MaxPending
    BY <2>1, <2>2, StreamAssumption
  <2> QED
    BY <1>1, <1>2, <2>1, <2>2, <2>3 DEF FirstCopies
<1>4. CASE heap' = heap
  BY <1>1, <1>2, <1>4 DEF FirstCopies
<1> QED
  BY <1>3, <1>4 DEF Deliver, FeedRetired, FeedViolation, reader

(* try_drain steps over the number it drained, which no first copy on the  *)
(* wire has; behind a closing frame there is none at all.                  *)
LEMMA DrainFirstCopies ==
    ASSUME CountFacts, IInv, FirstCopies, NEW f \in heap, DrainData(f) \/ DrainClosing(f)
    PROVE  FirstCopies'
<1>1. /\ heap' = heap \ {f} /\ wire' = wire /\ f.seq = next_recv_seq
      /\ next_recv_seq \in Nat
  BY DEF DrainData, DrainClosing, Drainable, TopInOrder, IInv, TypeOK
<1>2. IsFiniteSet(heap') /\ Cardinality(heap') <= MaxPending
  <2>1. IsFiniteSet(heap) /\ Cardinality(heap) <= MaxPending
    BY DEF FirstCopies
  <2>2. /\ IsFiniteSet(heap') /\ Cardinality(heap) \in Nat
        /\ Cardinality(heap') = Cardinality(heap) - 1
    BY Zenon, <1>1, <2>1 DEF CountFacts
  <2> QED
    BY <2>1, <2>2, StreamAssumption
<1>3. \A g \in wire : g.seq \in Nat /\ (g.copy = 0 => g.seq > next_recv_seq)
  BY <1>1 DEF IInv, TypeOK, Frame, FirstCopies
<1>4. CASE DrainData(f)
  <2>1. next_recv_seq' = next_recv_seq + 1 /\ UNCHANGED recv_closing_seen
    BY <1>4 DEF DrainData
  <2> QED
    BY <1>1, <1>2, <1>3, <2>1 DEF FirstCopies
<1>5. CASE DrainClosing(f)
  <2>1. next_recv_seq' = next_recv_seq /\ f.closing
    BY SMTT(20), Z3T(20), <1>5 DEF DrainClosing
  <2>2. Len(sent) \in Nat /\ f.seq + 1 = Len(sent)
    <3>1. /\ Len(sent) \in Nat /\ f.seq \in Nat /\ f.seq < Len(sent)
          /\ sent[f.seq + 1].closing
      BY SMTT(20), Z3T(20), <1>1, <2>1 DEF IInv, TypeOK, FramesWereSent, WasSent
    <3> QED
      BY SMTT(20), Z3T(20), <3>1 DEF IInv, SentIsPartition
  <2>3. \A g \in wire : g.seq < Len(sent)
    BY DEF IInv, FramesWereSent, WasSent
  <2>4. \A g \in wire : g.copy # 0
    BY <1>1, <1>3, <2>2, <2>3
  <2> QED
    BY <1>1, <1>2, <2>4 DEF FirstCopies
<1> QED
  BY SMTT(20), Z3T(20), <1>4, <1>5

(* Every step of both ends keeps what first copies rely on. *)
LEMMA NextFirstCopies == CountFacts /\ IInv /\ FirstCopies /\ [Next]_vars => FirstCopies'
<1> SUFFICES ASSUME CountFacts, IInv, FirstCopies, [Next]_vars PROVE FirstCopies'
  OBVIOUS
<1>1. CASE WriteChunk
  <2>1. PICK f :
          /\ f = [seq |-> next_write_seq, closing |-> FALSE, from |-> written,
                  len |-> Smaller(todo, MaxPayload), copy |-> 0]
          /\ wire' = wire \cup {f}
    BY <1>1, Zenon DEF WriteChunk
  <2>2. f.seq = next_write_seq
    BY <2>1
  <2>3. ~write_closed /\ UNCHANGED reader
    BY <1>1 DEF WriteChunk, IInv, WriteIsOpen
  <2> QED
    BY Zenon, <2>1, <2>2, <2>3, SendFirstCopies
<1>2. ASSUME NEW pad \in PadLens, SendClosing(pad) PROVE FirstCopies'
  <2>1. PICK f :
          /\ f = [seq |-> next_write_seq, closing |-> TRUE, from |-> written,
                  len |-> pad, copy |-> 0]
          /\ wire' = wire \cup {f}
    BY <1>2, Zenon DEF SendClosing
  <2>2. f.seq = next_write_seq
    BY <2>1
  <2>3. ~write_closed /\ UNCHANGED reader
    BY <1>2 DEF SendClosing
  <2> QED
    BY Zenon, <2>1, <2>2, <2>3, SendFirstCopies
<1>3. ASSUME NEW f \in wire, Deliver(f) PROVE FirstCopies'
  BY <1>3, DeliverFirstCopies
<1>4. ASSUME NEW f \in heap, DrainData(f) \/ DrainClosing(f) PROVE FirstCopies'
  BY <1>4, DrainFirstCopies
<1>5. CASE UNCHANGED <<wire, heap, next_recv_seq, recv_closing_seen>>
  BY <1>5 DEF FirstCopies
<1>6. CASE \/ \E n \in 1..MaxBytes : Write(n)
           \/ WriteDone \/ WriteSinkFails \/ SendClosingSinkFails
  BY SMTT(20), Z3T(20), <1>5, <1>6
     DEF Write, WriteDone, WriteSinkFails, SendClosingSinkFails, reader
<1>7. CASE DrainStop \/ ReaderNext \/ CloseLocally
  BY <1>5, <1>7 DEF DrainStop, ReaderNext, Read, ReadEof, CloseLocally
<1>8. CASE UNCHANGED vars
  BY <1>5, <1>8 DEF vars, reader
<1> QED
  BY <1>1, <1>2, <1>3, <1>4, <1>6, <1>7, <1>8 DEF Next, WriterNext, Drain

(* A refusal that costs the stream a first copy the byte queue can hold    *)
(* finds the heap full.                                                    *)
LEMMA RefusedOnlyWhenFull ==
    ASSUME CountFacts, IInv, FirstCopies, [Next]_vars, violated', ~violated,
           NEW g \in wire \ wire'
    PROVE  g.copy = 1 \/ g.len > RecvCap \/ Cardinality(heap) = MaxPending
<1>1. PICK f \in wire : FeedViolation(f)
  <2>1. CASE WriterNext
    BY Zenon, <2>1 DEF WriterNext, Write, WriteChunk, WriteDone, WriteSinkFails, SendClosing,
                SendClosingSinkFails, reader
  <2>2. CASE Drain
    BY Zenon, <2>2 DEF Drain, DrainData, DrainClosing, DrainStop
  <2>3. CASE ReaderNext \/ CloseLocally \/ UNCHANGED vars
    BY Zenon, <2>3 DEF ReaderNext, Read, ReadEof, CloseLocally, vars, reader
  <2>4. CASE \E f \in wire : FeedRetired(f) \/ FeedAccept(f)
    BY Zenon, <2>4 DEF FeedRetired, FeedAccept, reader
  <2> QED
    BY Zenon, <2>1, <2>2, <2>3, <2>4 DEF Next, Deliver
<1>2. g = f /\ ~Acceptable(f)
  <2>1. TakeFromWire(f) /\ ~Acceptable(f)
    BY Zenon, <1>1 DEF FeedViolation
  <2>2. wire \ wire' \subseteq {f}
    BY Zenon, <2>1, TakenFirstCopies
  <2> QED BY Zenon, <2>1, <2>2
<1>3. f \in Frame /\ IsFiniteSet(heap) /\ Cardinality(heap) <= MaxPending
  BY DEF IInv, TypeOK, FirstCopies
<1>4. f.copy \in {0, 1} /\ f.len \in Nat /\ Cardinality(heap) \in Nat
  BY <1>3 DEF Frame, CountFacts
<1>5. CASE f.copy = 0 /\ f.len <= RecvCap
  <2>1. /\ ~recv_closing_seen /\ f.seq >= next_recv_seq
        /\ \A h \in heap : h.seq # f.seq
    BY Zenon, <1>5 DEF FirstCopies
  <2>2. ~(Cardinality(heap) < MaxPending)
    BY Zenon, <1>2, <1>5, <2>1 DEF Acceptable
  <2> QED
    BY <1>3, <1>4, <2>2, StreamAssumption
<1> QED
  BY <1>2, <1>4, <1>5, StreamAssumption

(* The library's theorems on finite sets come in here and not with EXTENDS, *)
(* where they would weigh on every step above; the instance brings its own  *)
(* copy of FiniteSets, which SameNotions identifies with the one above.     *)
Finite(S) == IsFiniteSet(S)
Size(S) == Cardinality(S)
SizesIn(S) == CHOOSE CS : CS = [T \in SUBSET S |->
                 IF T = {} THEN 0 ELSE 1 + CS[T \ {CHOOSE x : x \in T}]]

(* A finite set is the range of a sequence. *)
LEMMA FiniteMeans ==
    \A S : Finite(S) <=> \E seq \in Seq(S) : \A s \in S : \E n \in 1..Len(seq) : seq[n] = s
  BY Zenon DEF Finite, IsFiniteSet

(* The number of members, by the definition of FiniteSets. *)
LEMMA SizeMeans == \A S : Size(S) = SizesIn(S)[S]
  BY Zenon DEF Size, Cardinality, SizesIn

(* CountFacts in these terms. *)
LEMMA CountFactsMean ==
    ASSUME /\ Finite({}) /\ Size({}) = 0
           /\ \A S : Finite(S) =>
                 /\ Size(S) \in Nat
                 /\ \A x : x \notin S => /\ Finite(S \cup {x})
                                       /\ Size(S \cup {x}) = Size(S) + 1
                 /\ \A x \in S : Finite(S \ {x}) /\ Size(S \ {x}) = Size(S) - 1
    PROVE  CountFacts
  BY Zenon DEF CountFacts, Finite, Size

LOCAL INSTANCE FiniteSetTheorems

(* The two copies of FiniteSets agree. *)
LEMMA SameNotions ==
    /\ \A S : Finite(S) <=> IsFiniteSet(S)
    /\ \A S : Size(S) = Cardinality(S)
<1>1. \A S : Finite(S) <=> IsFiniteSet(S)
  BY Zenon, FiniteMeans DEF IsFiniteSet
<1>2. \A S : Size(S) = Cardinality(S)
  BY Zenon, SizeMeans DEF SizesIn, Cardinality
<1> QED
  BY <1>1, <1>2

(* The facts about counting that the lemmas above assume. *)
LEMMA CountFactsHold == CountFacts
<1>1. /\ IsFiniteSet({}) /\ Cardinality({}) = 0
      /\ \A S : IsFiniteSet(S) =>
            /\ Cardinality(S) \in Nat
            /\ \A x : x \notin S => /\ IsFiniteSet(S \cup {x})
                                  /\ Cardinality(S \cup {x}) = Cardinality(S) + 1
            /\ \A x \in S : /\ IsFiniteSet(S \ {x})
                            /\ Cardinality(S \ {x}) = Cardinality(S) - 1
  BY Zenon, FS_EmptySet, FS_CardinalityType, FS_AddElement, FS_RemoveElement
<1> QED
  BY Zenon, <1>1, SameNotions, CountFactsMean

(* cloak_stream_feed_frame refuses a frame that is no repeat and fits the  *)
(* byte queue only when heap_push finds max_pending_frames pending: its    *)
(* other tests, on the order, on duplicates and on frames behind the end,  *)
(* never cost a stream a frame it was sent for the first time.             *)
THEOREM OnlyTheCapLosesAFrame == Spec => FirstCopyLostOnlyToCap
<1>1. IInv /\ FirstCopies /\ [Next]_vars =>
        [(violated' /\ ~violated) => \A f \in wire \ wire' :
            \/ f.copy = 1 \/ f.len > RecvCap
            \/ Size(heap) = MaxPending]_vars
  BY Zenon, RefusedOnlyWhenFull, CountFactsHold DEF Size
<1>2. IInv /\ FirstCopies /\ [Next]_vars => (IInv /\ FirstCopies)'
  BY NextIInv, NextFirstCopies, CountFactsHold
<1>3. Init => IInv /\ FirstCopies
  BY InitIInv, InitFirstCopies, CountFactsHold
<1> QED
  BY <1>1, <1>2, <1>3, PTL DEF Spec, FirstCopyLostOnlyToCap, Size
=============================================================================
