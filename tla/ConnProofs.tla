----------------------------- MODULE ConnProofs -----------------------------
(***************************************************************************)
(* For every framing, buffer, queue, rate and mix of frames: a connection  *)
(* overruns none of its buffers and never meets a full recv_acc, and at    *)
(* rest it waits for an event or a timer for all it still has to do.       *)
(*                                                                         *)
(* None of this is inductive by itself.  IInv adds what holds inside the   *)
(* nested calls: what is not on the ready list is the work of a call that  *)
(* has still to return; the descriptor is watched for what the two flags   *)
(* say; and the units in recv_acc, in the socket and under way are those   *)
(* of the frames that are still to be taken, so that an accumulator with   *)
(* no whole frame in it is short of one.                                   *)
(***************************************************************************)
EXTENDS Conn, Integers, TLAPS

Calls == {"read", "extract", "write", "closing", "envelope", "drained"}
AllFrames == UNION {InFrames[framing] : framing \in Framings}

(* c is one of the calls of stack s. *)
In(c, s) == \E n \in 1..Len(s) : s[n] = c
(* conn_extract_and_dispatch never runs below conn_handle_readable. *)
Nest(s) == \A m, n \in 1..Len(s) : m < n /\ s[m] = "read" => s[n] # "extract"

(* The types, by what changes together. *)
SendOK ==
    /\ want_writable \in BOOLEAN
    /\ send_q \in Seq(Nat) /\ Len(send_q) <= SendQueueCap
    /\ kbuf \in Seq(Nat) /\ Len(kbuf) <= SockCap
    /\ accepted \in Seq({"data", "pong", "close"} \X Nat)
RecvOK ==
    /\ ws \in [framing : Framings, active : BOOLEAN, len : 0..MaxFrameLen]
    /\ acc \in 0..RecvAccCap /\ inbound \in Seq(AllFrames)
NetOK == sock \in Nat /\ flight \in Nat /\ peer \in {"open", "fin", "rst"}
FlagsOK ==
    /\ broken \in BOOLEAN /\ read_paused \in BOOLEAN /\ rx_resume_timer \in BOOLEAN
    /\ interest \subseteq {"R", "W"} /\ edge \subseteq {"R", "W"}
    /\ tokens \in Nat /\ closed \in Nat
StackOK == stack \in Seq(Calls) /\ Nest(stack)
Shape == SendOK /\ RecvOK /\ NetOK /\ FlagsOK /\ StackOK

(* p[k] is how many units the first k frames still to be taken have. *)
Sums(p, s) ==
    /\ p \in [0..Len(s) -> Int] /\ p[0] = 0
    /\ \A k \in 1..Len(s) : p[k] = p[k - 1] + Size(s[k])

(* They are in recv_acc, in the socket, or under way. *)
Conserved == \E p : Sums(p, inbound) /\ p[Len(inbound)] = acc + sock + flight

(* on_closed is called when the connection breaks. *)
Told == closed = IF broken THEN 1 ELSE 0

(* conn_sync_interest has been called since a flag changed. *)
Watches == interest = (IF read_paused THEN {} ELSE {"R"}) \cup
                      (IF want_writable THEN {"W"} ELSE {})

(* What is queued will be written, *)
SendAwake == send_q # <<>> =>
    /\ want_writable
    /\ Len(kbuf) < SockCap => "W" \in edge \/ In("write", stack)
(* what has arrived will be read, *)
ReadAwake ==
    /\ read_paused => rx_resume_timer
    /\ ~read_paused /\ sock > 0 => "R" \in edge \/ In("read", stack)
(* and there is room to read it to. *)
RoomLeft == ~In("extract", stack) => acc < RecvAccCap

Live == broken \/ (Watches /\ SendAwake /\ ReadAwake /\ RoomLeft)

IInv == Shape /\ Conserved /\ Told /\ Live

-----------------------------------------------------------------------------
(* Sequences. *)

(* Two sequences, one after the other. *)
LEMMA SeqConcat ==
    ASSUME NEW S, NEW a \in Seq(S), NEW b \in Seq(S)
    PROVE  /\ a \o b \in Seq(S) /\ Len(a \o b) = Len(a) + Len(b)
           /\ \A i \in 1..Len(a) + Len(b) :
                (a \o b)[i] = IF i <= Len(a) THEN a[i] ELSE b[i - Len(a)]
  OBVIOUS

(* A part of a sequence. *)
LEMMA SeqSub ==
    ASSUME NEW S, NEW a \in Seq(S), NEW m \in 1..Len(a) + 1, NEW n \in m - 1..Len(a)
    PROVE  SubSeq(a, m, n) \in Seq(S) /\ Len(SubSeq(a, m, n)) = n - m + 1
  OBVIOUS

(* What is left behind the first element. *)
LEMMA SeqTail ==
    ASSUME NEW S, NEW a \in Seq(S), a # <<>>
    PROVE  /\ Tail(a) \in Seq(S) /\ Len(a) \in Nat \ {0} /\ Len(Tail(a)) = Len(a) - 1
           /\ \A i \in 1..Len(a) - 1 : Tail(a)[i] = a[i + 1]
           /\ Head(a) \in S /\ Head(a) = a[1]
  OBVIOUS

(* A call is entered. *)
LEMMA Pushed ==
    ASSUME NEW s \in Seq(Calls), NEW c \in Calls
    PROVE  /\ <<c>> \o s \in Seq(Calls)
           /\ \A d : In(d, <<c>> \o s) <=> d = c \/ In(d, s)
           /\ Nest(<<c>> \o s) <=> Nest(s) /\ ~(c = "read" /\ In("extract", s))
<1>1. /\ <<c>> \o s \in Seq(Calls) /\ Len(<<c>> \o s) = Len(s) + 1 /\ Len(s) \in Nat
      /\ (<<c>> \o s)[1] = c
      /\ \A n \in 1..Len(s) : (<<c>> \o s)[n + 1] = s[n]
  OBVIOUS
<1> DEFINE t == <<c>> \o s
<1> HIDE DEF t
<1>2. t \in Seq(Calls) /\ Len(t) = Len(s) + 1 /\ Len(s) \in Nat /\ t[1] = c
      /\ \A n \in 1..Len(s) : t[n + 1] = s[n]
  BY Zenon, <1>1 DEF t
<1>3. ASSUME NEW d, In(d, t) PROVE d = c \/ In(d, s)
  <2>1. PICK n \in 1..Len(t) : t[n] = d
    BY Zenon, <1>3 DEF In
  <2>2. CASE n = 1
    BY Zenon, <1>2, <2>1, <2>2
  <2>3. CASE n # 1
    <3>1. n - 1 \in 1..Len(s) /\ t[(n - 1) + 1] = s[n - 1] /\ (n - 1) + 1 = n
      BY <1>2, <2>3
    <3> QED BY Zenon, <2>1, <3>1 DEF In
  <2> QED BY Zenon, <2>2, <2>3
<1>4. ASSUME NEW d, d = c \/ In(d, s) PROVE In(d, t)
  <2>1. CASE d = c
    <3>1. 1 \in 1..Len(t)
      BY <1>2
    <3> QED BY Zenon, <1>2, <2>1, <3>1 DEF In
  <2>2. CASE In(d, s)
    <3>1. PICK n \in 1..Len(s) : s[n] = d
      BY Zenon, <2>2 DEF In
    <3>2. n + 1 \in 1..Len(t) /\ t[n + 1] = d
      BY <1>2, <3>1
    <3> QED BY Zenon, <3>2 DEF In
  <2> QED BY Zenon, <1>4, <2>1, <2>2
<1>5. ASSUME Nest(t) PROVE Nest(s) /\ ~(c = "read" /\ In("extract", s))
  <2>1. Nest(s)
    <3> SUFFICES ASSUME NEW m \in 1..Len(s), NEW n \in 1..Len(s), m < n, s[m] = "read"
                 PROVE  s[n] # "extract"
      BY Zenon DEF Nest
    <3>1. m + 1 \in 1..Len(t) /\ n + 1 \in 1..Len(t) /\ m + 1 < n + 1
          /\ t[m + 1] = "read" /\ t[n + 1] = s[n]
      BY <1>2
    <3> QED BY Zenon, <1>5, <3>1 DEF Nest
  <2>2. ASSUME c = "read", NEW n \in 1..Len(s) PROVE s[n] # "extract"
    <3>1. 1 \in 1..Len(t) /\ n + 1 \in 1..Len(t) /\ 1 < n + 1
          /\ t[1] = "read" /\ t[n + 1] = s[n]
      BY <1>2, <2>2
    <3> QED BY Zenon, <1>5, <3>1 DEF Nest
  <2> QED BY Zenon, <2>1, <2>2 DEF In
<1>6. ASSUME Nest(s), ~(c = "read" /\ In("extract", s)) PROVE Nest(t)
  <2> SUFFICES ASSUME NEW m \in 1..Len(t), NEW n \in 1..Len(t), m < n, t[m] = "read"
               PROVE  t[n] # "extract"
    BY Zenon DEF Nest
  <2>1. n - 1 \in 1..Len(s) /\ t[n] = s[n - 1]
    <3>1. n - 1 \in 1..Len(s) /\ (n - 1) + 1 = n
      BY <1>2
    <3> QED BY <1>2, <3>1
  <2>2. CASE m = 1
    BY Zenon, <1>2, <1>6, <2>1, <2>2 DEF In
  <2>3. CASE m # 1
    <3>1. m - 1 \in 1..Len(s) /\ (m - 1) + 1 = m /\ m - 1 < n - 1
      BY <1>2, <2>3
    <3>2. s[m - 1] = "read"
      BY <1>2, <3>1
    <3> QED BY Zenon, <1>6, <2>1, <3>1, <3>2 DEF Nest
  <2> QED BY Zenon, <2>2, <2>3
<1> QED BY Zenon, <1>2, <1>3, <1>4, <1>5, <1>6 DEF t

(* A call returns. *)
LEMMA Popped ==
    ASSUME NEW s \in Seq(Calls), s # <<>>
    PROVE  /\ Tail(s) \in Seq(Calls)
           /\ \A d : In(d, s) <=> d = Head(s) \/ In(d, Tail(s))
           /\ Nest(s) => Nest(Tail(s)) /\ ~(Head(s) = "read" /\ In("extract", Tail(s)))
<1>1. /\ Tail(s) \in Seq(Calls) /\ Head(s) \in Calls /\ s = <<Head(s)>> \o Tail(s)
  OBVIOUS
<1> DEFINE h == Head(s)  t == Tail(s)
<1> HIDE DEF h, t
<1>2. t \in Seq(Calls) /\ h \in Calls /\ s = <<h>> \o t
  BY Zenon, <1>1 DEF h, t
<1>3. /\ \A d : In(d, <<h>> \o t) <=> d = h \/ In(d, t)
      /\ Nest(<<h>> \o t) => Nest(t) /\ ~(h = "read" /\ In("extract", t))
  BY Zenon, <1>2, Pushed
<1>4. /\ \A d : In(d, s) <=> d = h \/ In(d, t)
      /\ Nest(s) => Nest(t) /\ ~(h = "read" /\ In("extract", t))
  BY <1>2, <1>3
<1> QED BY Zenon, <1>2, <1>4 DEF h, t

(* Nothing is called at rest. *)
LEMMA NoneInEmpty == <<>> \in Seq(Calls) /\ Nest(<<>>) /\ \A c : ~In(c, <<>>)
  BY DEF In, Nest

(* Min of two numbers. *)
LEMMA MinOfTwo == \A a, b \in Nat : Min({a, b}) = IF a <= b THEN a ELSE b
<1> TAKE a \in Nat, b \in Nat
<1> DEFINE m == IF a <= b THEN a ELSE b
<1>1. m \in {a, b} /\ (\A y \in {a, b} : m <= y)
      /\ \A x \in {a, b} : (\A y \in {a, b} : x <= y) => x = m
  OBVIOUS
<1> QED BY <1>1 DEF Min

-----------------------------------------------------------------------------
(* The model's operators. *)

(* recv_acc holds more than one whole frame of either kind. *)
LEMMA Capacity ==
    ASSUME ws \in [framing : Framings, active : BOOLEAN, len : 0..MaxFrameLen]
    PROVE  /\ RecvAccCap \in Nat /\ MaxRecvEnvelope \in Nat
           /\ RecvAccCap = 2 * MaxRecvEnvelope
           /\ MaxRecvEnvelope = (IF PeerMasks THEN 2 ELSE 1) + MaxFrameLen
           /\ MaxFrameLen \in Nat \ {0}
<1>1. MaxFrameLen \in Nat \ {0}
  BY ConnAssumption
<1> QED BY <1>1 DEF RecvAccCap, MaxRecvEnvelope, HeaderLen

(* A frame has at least its header. *)
LEMMA SizeIsPositive ==
    ASSUME NEW f \in AllFrames
    PROVE  /\ f.len \in Nat /\ f.masked \in BOOLEAN
           /\ Size(f) = (IF f.masked THEN 2 ELSE 1) + f.len
           /\ Size(f) \in Nat \ {0}
<1>1. f.len \in Nat /\ f.masked \in BOOLEAN
  BY Zenon, ConnAssumption DEF AllFrames
<1>2. Size(f) = (IF f.masked THEN 2 ELSE 1) + f.len
  BY Zenon DEF Size, HeaderLen
<1> QED BY <1>1, <1>2

(* TypeOK is the part of Shape the program is typed by. *)
LEMMA ShapeIsTyped == Shape => TypeOK
<1> SUFFICES ASSUME Shape PROVE TypeOK
  OBVIOUS
<1>1. \A n \in 1..Len(stack) : stack[n] \in Calls
  BY DEF Shape, StackOK
<1> QED BY Zenon, <1>1 DEF Shape, SendOK, RecvOK, NetOK, FlagsOK, TypeOK, Calls

(* What a step leaves alone keeps its type, and the units their sum. *)
LEMMA Untouched ==
    /\ SendOK /\ UNCHANGED sending => SendOK'
    /\ RecvOK /\ UNCHANGED <<ws, acc, inbound>> => RecvOK'
    /\ NetOK /\ UNCHANGED <<sock, flight, peer>> => NetOK'
    /\ Conserved /\ UNCHANGED <<inbound, acc, sock, flight>> => Conserved'
<1>1. SendOK /\ UNCHANGED sending => SendOK'
  BY Zenon DEF SendOK, sending
<1>2. ASSUME RecvOK, UNCHANGED <<ws, acc, inbound>> PROVE RecvOK'
  <2>1. RecvAccCap' = RecvAccCap
    BY Zenon, <1>2 DEF RecvAccCap, MaxRecvEnvelope, PeerMasks
  <2> QED BY Zenon, <1>2, <2>1 DEF RecvOK
<1>3. NetOK /\ UNCHANGED <<sock, flight, peer>> => NetOK'
  BY Zenon DEF NetOK
<1>4. Conserved /\ UNCHANGED <<inbound, acc, sock, flight>> => Conserved'
  BY Zenon DEF Conserved, Sums
<1> QED BY Zenon, <1>1, <1>2, <1>3, <1>4

(* conn_sync_interest watches for what the flags say and loses no edge     *)
(* that is still wanted; what becomes wanted again is reported if it is    *)
(* there already.                                                          *)
LEMMA SyncFacts ==
    ASSUME SyncInterest, interest \subseteq {"R", "W"}, edge \subseteq {"R", "W"},
           read_paused' \in BOOLEAN, want_writable' \in BOOLEAN
    PROVE  /\ Watches' /\ interest' \subseteq {"R", "W"} /\ edge' \subseteq {"R", "W"}
           /\ ~read_paused' /\ "R" \in edge => "R" \in edge'
           /\ want_writable' /\ "W" \in edge => "W" \in edge'
<1> DEFINE mask == (IF read_paused' THEN {} ELSE {"R"}) \cup
                   (IF want_writable' THEN {"W"} ELSE {})
<1>1. /\ interest' = mask
      /\ edge' = IF mask = interest THEN edge ELSE (edge \cap mask) \cup Reports(mask)
  BY Zenon DEF SyncInterest
<1>2. mask \subseteq {"R", "W"} /\ Reports(mask) \subseteq mask
      /\ (~read_paused' => "R" \in mask) /\ (want_writable' => "W" \in mask)
  BY DEF Reports
<1>3. Watches'
  BY Zenon, <1>1 DEF Watches
<1> HIDE DEF mask
<1>4. edge' \subseteq {"R", "W"} /\ (edge \cap mask) \subseteq edge'
  BY Zenon, <1>1, <1>2
<1> QED BY <1>1, <1>2, <1>3, <1>4

-----------------------------------------------------------------------------
(* The steps. *)

(* A connection that breaks has nothing left to wait for. *)
LEMMA BreakIInv ==
    ASSUME IInv, MarkBroken, SendOK', RecvOK', NetOK', Conserved', StackOK',
           UNCHANGED <<read_paused, interest, tokens, rx_resume_timer>>
    PROVE  IInv'
<1>1. FlagsOK /\ Told
  BY Zenon DEF IInv, Shape
<1>2. broken' = TRUE /\ edge' = {} /\ closed' = IF broken THEN closed ELSE closed + 1
  BY Zenon DEF MarkBroken
<1>3. closed' = 1
  BY <1>1, <1>2 DEF Told, FlagsOK
<1>4. FlagsOK'
  BY <1>1, <1>2, <1>3 DEF FlagsOK
<1>5. Told' /\ Live'
  BY Zenon, <1>2, <1>3 DEF Told, Live
<1> QED BY Zenon, <1>4, <1>5 DEF IInv, Shape

(* Some of the queue into the send buffer: if any is left, that is full. *)
LEMMA MoveFacts ==
    ASSUME NEW q \in Seq(Nat), NEW b \in Seq(Nat), Len(b) <= SockCap, NEW k,
           k = Min({Len(q), SockCap - Len(b)})
    PROVE  /\ k \in 0..Len(q)
           /\ b \o SubSeq(q, 1, k) \in Seq(Nat) /\ Len(b \o SubSeq(q, 1, k)) <= SockCap
           /\ Left(q, k) \in Seq(Nat) /\ Len(Left(q, k)) <= Len(q)
           /\ Left(q, k) # <<>> =>
                 k < Len(q) /\ ~(Len(b \o SubSeq(q, 1, k)) < SockCap)
<1>1. SockCap \in Nat /\ Len(q) \in Nat /\ Len(b) \in Nat
  BY ConnAssumption
<1>2. k = IF Len(q) <= SockCap - Len(b) THEN Len(q) ELSE SockCap - Len(b)
  <2>1. SockCap - Len(b) \in Nat
    BY <1>1
  <2> QED BY Zenon, <1>1, <2>1, MinOfTwo
<1>3. k \in 0..Len(q) /\ Len(b) + k <= SockCap /\ (k < Len(q) => Len(b) + k = SockCap)
  BY <1>1, <1>2
<1>4. SubSeq(q, 1, k) \in Seq(Nat) /\ Len(SubSeq(q, 1, k)) = k
  <2>1. 1 \in 1..Len(q) + 1 /\ k \in 1 - 1..Len(q) /\ k - 1 + 1 = k
    BY <1>1, <1>3
  <2>2. Len(SubSeq(q, 1, k)) = k - 1 + 1 /\ SubSeq(q, 1, k) \in Seq(Nat)
    BY Zenon, <2>1, SeqSub
  <2> QED BY Zenon, <2>1, <2>2
<1>5. b \o SubSeq(q, 1, k) \in Seq(Nat) /\ Len(b \o SubSeq(q, 1, k)) = Len(b) + k
  <2> DEFINE a == SubSeq(q, 1, k)
  <2>1. a \in Seq(Nat) /\ Len(a) = k
    BY Zenon, <1>4
  <2> HIDE DEF a
  <2>2. b \o a \in Seq(Nat) /\ Len(b \o a) = Len(b) + k
    BY <2>1
  <2> QED BY Zenon, <2>2 DEF a
<1>6. Left(q, k) \in Seq(Nat) /\ Len(Left(q, k)) = Len(q) - k
  <2>1. /\ k + 1 \in 1..Len(q) + 1 /\ Len(q) \in (k + 1) - 1..Len(q)
        /\ Len(q) - (k + 1) + 1 = Len(q) - k
    <3> DEFINE l == Len(q)
    <3>1. l \in Nat /\ k \in 0..l
      BY Zenon, <1>1, <1>3
    <3> HIDE DEF l
    <3>2. k + 1 \in 1..l + 1 /\ l \in (k + 1) - 1..l /\ l - (k + 1) + 1 = l - k
      BY <3>1
    <3> QED BY Zenon, <3>2 DEF l
  <2>2. /\ Len(SubSeq(q, k + 1, Len(q))) = Len(q) - (k + 1) + 1
        /\ SubSeq(q, k + 1, Len(q)) \in Seq(Nat)
    BY Zenon, <2>1, SeqSub
  <2> QED BY Zenon, <2>1, <2>2 DEF Left
<1>7. Left(q, k) # <<>> => k < Len(q)
  <2>1. Len(Left(q, k)) = 0 => Left(q, k) = <<>>
    BY <1>6
  <2> QED BY <1>1, <1>3, <1>6, <2>1
<1>8. /\ Len(b \o SubSeq(q, 1, k)) <= SockCap /\ Len(Left(q, k)) <= Len(q)
      /\ k < Len(q) => ~(Len(b \o SubSeq(q, 1, k)) < SockCap)
  <2> DEFINE m == Len(b \o SubSeq(q, 1, k))  l == Len(Left(q, k))
  <2>1. m = Len(b) + k /\ l = Len(q) - k
    BY Zenon, <1>5, <1>6
  <2> HIDE DEF m, l
  <2>2. m <= SockCap /\ l <= Len(q) /\ (k < Len(q) => ~(m < SockCap))
    BY <1>1, <1>3, <2>1
  <2> QED BY Zenon, <2>2 DEF m, l
<1> QED BY Zenon, <1>3, <1>5, <1>6, <1>7, <1>8

(* conn_try_drain_send, wherever it is called from: what stays in the      *)
(* queue stays because the socket is full, and the call has lost no edge.  *)
LEMMA DrainIInv ==
    ASSUME IInv, ~broken, NEW q \in Seq(Nat), Len(q) <= SendQueueCap,
           NEW rest \in Seq(Calls), Nest(rest), TryDrain(q, rest),
           In("read", stack) => In("read", rest),
           RecvOK', Conserved', In("extract", rest) \/ acc' < RecvAccCap',
           accepted' \in Seq({"data", "pong", "close"} \X Nat),
           UNCHANGED <<rx_resume_timer, sock, flight, peer, tokens>>
    PROVE  IInv'
<1>0. /\ SendOK /\ NetOK /\ FlagsOK /\ Told /\ ReadAwake
  BY Zenon DEF IInv, Shape, Live
<1>1. NetOK'
  BY Zenon, <1>0, Untouched
<1>2. CASE q # <<>> /\ peer = "rst"
  <2>1. /\ MarkBroken /\ send_q' = q /\ stack' = rest
        /\ UNCHANGED <<kbuf, want_writable, read_paused, interest>>
    BY Zenon, <1>2 DEF TryDrain
  <2>2. SendOK' /\ StackOK'
    BY Zenon, <1>0, <2>1 DEF SendOK, StackOK
  <2> QED BY Zenon, <1>1, <2>1, <2>2, BreakIInv
<1>3. CASE ~(q # <<>> /\ peer = "rst")
  <2>1. PICK k : /\ k = Min({Len(q), SockCap - Len(kbuf)})
                 /\ kbuf' = kbuf \o SubSeq(q, 1, k) /\ send_q' = Left(q, k)
                 /\ want_writable' = (k < Len(q))
                 /\ UNCHANGED <<broken, closed, read_paused>> /\ SyncInterest
                 /\ stack' = rest \/ stack' = <<"drained">> \o rest
    BY Zenon, <1>3 DEF TryDrain
  <2>2. kbuf \in Seq(Nat) /\ Len(kbuf) <= SockCap
    BY Zenon, <1>0 DEF SendOK
  <2>3. /\ kbuf' \in Seq(Nat) /\ Len(kbuf') <= SockCap
        /\ send_q' \in Seq(Nat) /\ Len(send_q') <= Len(q)
        /\ send_q' # <<>> => k < Len(q) /\ ~(Len(kbuf') < SockCap)
    BY Zenon, <2>1, <2>2, MoveFacts
  <2>4. want_writable' \in BOOLEAN /\ (send_q' # <<>> => want_writable')
    <3>1. want_writable' = (k < Len(q)) /\ (send_q' # <<>> => k < Len(q))
      BY Zenon, <2>1, <2>3
    <3>2. want_writable' \in BOOLEAN
      BY SMT, <3>1
    <3> QED BY Zenon, <3>1, <3>2
  <2>5. SendOK'
    <3>1. Len(send_q') <= SendQueueCap
      BY <2>3, ConnAssumption
    <3> QED BY Zenon, <2>3, <2>4, <3>1 DEF SendOK
  <2>6. /\ Watches' /\ interest' \subseteq {"R", "W"} /\ edge' \subseteq {"R", "W"}
        /\ ~read_paused' /\ "R" \in edge => "R" \in edge'
    <3>1. interest \subseteq {"R", "W"} /\ edge \subseteq {"R", "W"} /\ read_paused' \in BOOLEAN
      BY Zenon, <1>0, <2>1 DEF FlagsOK
    <3> QED BY Zenon, <2>1, <2>4, <3>1, SyncFacts
  <2>7. /\ StackOK' /\ (In("read", rest) => In("read", stack'))
        /\ (In("extract", rest) => In("extract", stack'))
    <3>1. "drained" \in Calls /\ "drained" # "read"
      BY DEF Calls
    <3>2. /\ <<"drained">> \o rest \in Seq(Calls) /\ Nest(<<"drained">> \o rest)
          /\ \A d : In(d, rest) => In(d, <<"drained">> \o rest)
      BY Zenon, <3>1, Pushed
    <3>3. CASE stack' = rest
      BY Zenon, <3>3 DEF StackOK
    <3>4. CASE stack' = <<"drained">> \o rest
      BY Zenon, <3>2, <3>4 DEF StackOK
    <3> QED BY Zenon, <2>1, <3>3, <3>4
  <2>8. FlagsOK' /\ Told'
    BY Zenon, <1>0, <2>1, <2>6 DEF FlagsOK, Told
  <2>9. SendAwake' /\ RoomLeft'
    BY Zenon, <2>3, <2>4, <2>7 DEF SendAwake, RoomLeft
  <2>10. ReadAwake'
    BY Zenon, <1>0, <2>1, <2>6, <2>7 DEF ReadAwake
  <2> QED BY Zenon, <1>1, <2>5, <2>6, <2>7, <2>8, <2>9, <2>10 DEF IInv, Shape, Live
<1> QED BY Zenon, <1>2, <1>3

(* A frame to be sent: refused for want of room, which breaks the          *)
(* connection, or queued whole and drained.                                *)
LEMMA EnqueueIInv ==
    ASSUME IInv, ~broken, NEW op \in {"data", "pong", "close"}, NEW len \in Nat,
           NEW rest \in Seq(Calls), Nest(rest), Enqueue(op, len, rest),
           In("read", stack) => In("read", rest),
           RecvOK', Conserved', In("extract", rest) \/ acc' < RecvAccCap',
           UNCHANGED <<rx_resume_timer, sock, flight, peer, tokens>>
    PROVE  IInv'
<1>0. SendOK /\ NetOK
  BY Zenon DEF IInv, Shape
<1> DEFINE n == SendEnvelope(len)
<1>1. n \in Nat
  BY DEF SendEnvelope, HeaderLen
<1>2. CASE SendQueueCap - Len(send_q) < n
  <2>1. /\ MarkBroken /\ stack' = rest /\ UNCHANGED <<sending, read_paused, interest>>
    BY Zenon, <1>2 DEF Enqueue
  <2>2. SendOK' /\ NetOK' /\ StackOK'
    BY Zenon, <1>0, <2>1, Untouched DEF StackOK
  <2> QED BY Zenon, <2>1, <2>2, BreakIInv
<1>3. CASE ~(SendQueueCap - Len(send_q) < n)
  <2> DEFINE q == send_q \o Units(Len(accepted) + 1, n)
  <2>1. accepted' = Append(accepted, <<op, n>>) /\ TryDrain(q, rest)
    BY Zenon, <1>3 DEF Enqueue
  <2> HIDE DEF n
  <2>2. accepted' \in Seq({"data", "pong", "close"} \X Nat) /\ Len(accepted) \in Nat
    <3>1. /\ accepted \in Seq({"data", "pong", "close"} \X Nat)
          /\ <<op, n>> \in {"data", "pong", "close"} \X Nat
      BY <1>0, <1>1 DEF SendOK
    <3> QED BY <2>1, <3>1
  <2>3. q \in Seq(Nat) /\ Len(q) <= SendQueueCap
    <3>1. /\ send_q \in Seq(Nat) /\ SendQueueCap \in Nat
      BY <1>0, ConnAssumption DEF SendOK
    <3> DEFINE u == Units(Len(accepted) + 1, n)
    <3>2. u \in Seq(Nat) /\ Len(u) = n
      BY <1>1, <2>2 DEF Units
    <3> HIDE DEF u
    <3>3. send_q \o u \in Seq(Nat) /\ Len(send_q \o u) = Len(send_q) + n
      BY Zenon, <3>1, <3>2, SeqConcat
    <3>4. Len(send_q) + n <= SendQueueCap
      BY <1>1, <1>3, <3>1
    <3>5. Len(send_q \o u) <= SendQueueCap
      BY <3>3, <3>4
    <3> QED BY Zenon, <3>3, <3>5 DEF u
  <2> HIDE DEF q
  <2> QED BY Zenon, <2>1, <2>2, <2>3, DrainIInv
<1> QED BY Zenon, <1>2, <1>3

(* A frame taken from recv_acc takes its units along. *)
LEMMA TakeFacts ==
    ASSUME IInv, Whole, Take, UNCHANGED <<sock, flight>>,
           ws' \in [framing : Framings, active : BOOLEAN, len : 0..MaxFrameLen],
           ws'.framing = ws.framing
    PROVE  RecvOK' /\ Conserved'
<1>0. RecvOK /\ NetOK /\ Conserved
  BY Zenon DEF IInv, Shape
<1>1. /\ inbound # <<>> /\ acc >= Size(First) /\ inbound' = Tail(inbound)
      /\ acc' = acc - Size(First)
  BY Zenon DEF Whole, HeaderReady, Take
<1>2. inbound \in Seq(AllFrames)
  BY Zenon, <1>0 DEF RecvOK
<1>3. /\ inbound' \in Seq(AllFrames) /\ Len(inbound) \in Nat \ {0}
      /\ Len(inbound') = Len(inbound) - 1
      /\ \A i \in 1..Len(inbound) - 1 : inbound'[i] = inbound[i + 1]
      /\ First \in AllFrames /\ First = inbound[1]
  BY Zenon, <1>1, <1>2, SeqTail DEF First
<1>4. Size(First) \in Nat \ {0}
  BY Zenon, <1>3, SizeIsPositive
<1>5. RecvAccCap' = RecvAccCap
  BY Zenon DEF RecvAccCap, MaxRecvEnvelope, PeerMasks
<1>6. acc \in Nat /\ acc <= RecvAccCap /\ RecvAccCap \in Nat
  BY <1>0, Capacity DEF RecvOK
<1>7. acc' \in 0..RecvAccCap'
  BY <1>1, <1>4, <1>5, <1>6
<1>8. Conserved'
  <2>1. PICK p : Sums(p, inbound) /\ p[Len(inbound)] = acc + sock + flight
    BY Zenon, <1>0 DEF Conserved
  <2> DEFINE l == Len(inbound) - 1
             r == [k \in 0..l |-> p[k + 1] - p[1]]
  <2>2. /\ p \in [0..Len(inbound) -> Int] /\ p[0] = 0
        /\ \A k \in 1..Len(inbound) : p[k] = p[k - 1] + Size(inbound[k])
    BY Zenon, <2>1 DEF Sums
  <2>3. l \in Nat /\ Len(inbound) = l + 1 /\ Len(inbound') = l
    BY <1>3
  <2> HIDE DEF l
  <2>4. p[1] = Size(First)
    <3>1. p[1] = p[1 - 1] + Size(inbound[1])
      BY <2>2, <2>3
    <3>2. p[1] = 0 + Size(First)
      BY <1>3, <2>2, <3>1
    <3> QED BY <1>4, <3>2
  <2>5. r \in [0..l -> Int] /\ r[0] = 0 /\ r[l] = p[l + 1] - p[1]
    BY <2>2, <2>3
  <2>6. ASSUME NEW k \in 1..l PROVE r[k] = r[k - 1] + Size(inbound'[k])
    <3>1. /\ k + 1 \in 1..Len(inbound) /\ (k + 1) - 1 = k /\ k - 1 \in 0..l /\ (k - 1) + 1 = k
          /\ k \in 1..Len(inbound) - 1 /\ k \in 0..l
      BY <2>3
    <3>2. p[k + 1] = p[k] + Size(inbound'[k])
      BY <1>3, <2>2, <3>1
    <3>3. r[k] = p[k + 1] - p[1] /\ r[k - 1] = p[k] - p[1]
      BY <3>1
    <3>4. Size(inbound'[k]) \in Nat
      <4>1. inbound'[k] \in AllFrames
        BY <1>3, <2>3
      <4> QED BY <4>1, SizeIsPositive
    <3>5. p[k] \in Int /\ p[1] \in Int
      BY <2>2, <2>3
    <3> HIDE DEF r
    <3> QED BY <3>2, <3>3, <3>4, <3>5
  <2>7. r[l] = acc' + sock' + flight'
    <3> HIDE DEF r
    <3>1. sock \in Nat /\ flight \in Nat /\ sock' = sock /\ flight' = flight
      BY Zenon, <1>0 DEF NetOK
    <3>2. r[l] = (acc + sock + flight) - Size(First)
      BY <2>1, <2>3, <2>4, <2>5
    <3> QED BY <1>1, <1>4, <1>6, <3>1, <3>2
  <2> HIDE DEF r
  <2>8. Sums(r, inbound')
    BY Zenon, <2>3, <2>5, <2>6 DEF Sums
  <2>9. r[Len(inbound')] = acc' + sock' + flight'
    BY Zenon, <2>3, <2>7
  <2> QED BY Zenon, <2>8, <2>9 DEF Conserved, Sums
<1> QED BY Zenon, <1>3, <1>7, <1>8 DEF RecvOK

(* A call that has done its work returns.  What must hold of the work is   *)
(* that a read stops at an empty socket or with a pause, and an extraction *)
(* with room in recv_acc.                                                  *)
LEMMA ReturnIInv ==
    ASSUME IInv, stack # <<>>, stack' = Tail(stack),
           UNCHANGED <<broken, read_paused, interest, rx_resume_timer, sending,
                       receiving, network, edge, tokens, closed>>,
           broken \/ /\ Head(stack) # "write"
                     /\ Head(stack) = "read" => sock = 0
                     /\ Head(stack) = "extract" => acc < RecvAccCap
    PROVE  IInv'
<1>0. Shape /\ Conserved /\ Told
  BY Zenon DEF IInv
<1>1. SendOK' /\ RecvOK' /\ NetOK' /\ Conserved'
  BY Zenon, <1>0, Untouched DEF Shape, receiving, network
<1>2. FlagsOK' /\ Told'
  BY Zenon, <1>0 DEF Shape, FlagsOK, Told
<1>3. /\ stack' \in Seq(Calls) /\ Nest(stack')
      /\ \A d : In(d, stack) <=> d = Head(stack) \/ In(d, stack')
  BY Zenon, <1>0, Popped DEF Shape, StackOK
<1>4. ASSUME ~broken PROVE Watches' /\ SendAwake' /\ ReadAwake' /\ RoomLeft'
  <2>1. Watches /\ SendAwake /\ ReadAwake /\ RoomLeft
    BY Zenon, <1>4 DEF IInv, Live
  <2>2. Watches' /\ SendAwake'
    BY Zenon, <1>3, <1>4, <2>1 DEF Watches, SendAwake, sending
  <2>3. ReadAwake'
    <3>1. sock = 0 => ~(sock > 0)
      OBVIOUS
    <3> QED BY Zenon, <1>3, <1>4, <2>1, <3>1 DEF ReadAwake, network
  <2>4. RoomLeft'
    <3>1. acc' = acc /\ RecvAccCap' = RecvAccCap
      BY Zenon DEF receiving, RecvAccCap, MaxRecvEnvelope, PeerMasks
    <3>2. In("extract", stack) => Head(stack) = "extract" \/ In("extract", stack')
      BY Zenon, <1>3
    <3>3. ~In("extract", stack') => acc < RecvAccCap
      BY Zenon, <1>4, <2>1, <3>2 DEF RoomLeft
    <3> QED BY Zenon, <3>1, <3>3 DEF RoomLeft
  <2> QED BY Zenon, <2>2, <2>3, <2>4
<1> QED BY Zenon, <1>1, <1>2, <1>3, <1>4 DEF IInv, Shape, StackOK, Live

(* Where conn_handle_readable looks, recv_acc has room. *)
LEMMA ReadHasRoom ==
    ASSUME IInv, ~broken, Running("read")
    PROVE  /\ acc \in Nat /\ acc < RecvAccCap /\ RecvAccCap \in Nat
           /\ Want \in 1..RecvAccCap - acc
<1>1. StackOK /\ RecvOK /\ RoomLeft
  BY Zenon DEF IInv, Shape, Live
<1>2. stack # <<>> /\ Head(stack) = "read"
  BY Zenon DEF Running, Idle
<1>3. ~In("extract", stack)
  <2>1. "extract" # "read"
    OBVIOUS
  <2>2. stack \in Seq(Calls) /\ Nest(stack)
    BY Zenon, <1>1 DEF StackOK
  <2> QED BY Zenon, <1>2, <2>1, <2>2, Popped
<1>4. acc < RecvAccCap
  BY Zenon, <1>1, <1>3 DEF RoomLeft
<1>5. acc \in Nat /\ RecvAccCap \in Nat /\ Chunk \in Nat \ {0}
  BY <1>1, Capacity, ConnAssumption DEF RecvOK
<1>6. Want = IF RecvAccCap - acc <= Chunk THEN RecvAccCap - acc ELSE Chunk
  <2>1. RecvAccCap - acc \in Nat
    BY <1>4, <1>5
  <2> QED BY Zenon, <1>5, <2>1, MinOfTwo DEF Want
<1>7. Want \in 1..RecvAccCap - acc
  BY <1>4, <1>5, <1>6
<1> QED BY Zenon, <1>4, <1>5, <1>7

(* The owner's on_envelope or on_drained returns. *)
LEMMA CallbackReturnsIInv == ASSUME IInv, CallbackReturns PROVE IInv'
<1>1. /\ stack # <<>> /\ Head(stack) \in {"envelope", "drained"} /\ stack' = Tail(stack)
      /\ UNCHANGED <<broken, read_paused, interest, rx_resume_timer, sending,
                     receiving, network, edge, tokens, closed>>
  BY Zenon DEF CallbackReturns, Idle
<1>2. Head(stack) # "write" /\ Head(stack) # "read" /\ Head(stack) # "extract"
  BY <1>1
<1> QED BY Zenon, <1>1, <1>2, ReturnIInv

(* A loop leaves a broken connection. *)
LEMMA UnwindIInv == ASSUME IInv, Unwind PROVE IInv'
<1>1. /\ stack # <<>> /\ stack' = Tail(stack) /\ broken
      /\ UNCHANGED <<broken, read_paused, interest, rx_resume_timer, sending,
                     receiving, network, edge, tokens, closed>>
  BY Zenon DEF Unwind, Idle
<1> QED BY Zenon, <1>1, ReturnIInv

(* The socket is empty; recv_acc is not full. *)
LEMMA ReadEmptyIInv == ASSUME IInv, ReadEmpty PROVE IInv'
<1>1. /\ Running("read") /\ ~broken /\ stack' = Tail(stack)
      /\ Want > 0 => sock = 0
      /\ UNCHANGED <<broken, read_paused, interest, rx_resume_timer, sending,
                     receiving, network, edge, tokens, closed>>
  BY Zenon DEF ReadEmpty
<1>2. Want > 0
  <2>1. /\ acc \in Nat /\ RecvAccCap \in Nat /\ Want \in 1..RecvAccCap - acc
    BY Zenon, <1>1, ReadHasRoom
  <2> QED BY <2>1
<1>3. stack # <<>> /\ Head(stack) = "read" /\ "read" # "write" /\ "read" # "extract"
  BY <1>1 DEF Running, Idle
<1> QED BY Zenon, <1>1, <1>2, <1>3, ReturnIInv

(* No whole frame is in recv_acc, and so it has room for the rest of one.  *)
LEMMA ExtractWaitsIInv == ASSUME IInv, ExtractWaits PROVE IInv'
<1>0. RecvOK /\ NetOK /\ Conserved
  BY Zenon DEF IInv, Shape
<1>1. /\ stack # <<>> /\ Head(stack) = "extract" /\ ~broken /\ stack' = Tail(stack)
      /\ ~(HeaderReady /\ (Illegal \/ acc >= Size(First)))
      /\ UNCHANGED <<broken, read_paused, interest, rx_resume_timer, sending,
                     receiving, network, edge, tokens, closed>>
  BY Zenon DEF ExtractWaits, Extracting, Running, Idle
<1>2. /\ acc \in Nat /\ RecvAccCap \in Nat /\ MaxRecvEnvelope \in Nat
      /\ RecvAccCap = 2 * MaxRecvEnvelope /\ MaxFrameLen \in Nat \ {0}
      /\ MaxRecvEnvelope = (IF PeerMasks THEN 2 ELSE 1) + MaxFrameLen
  BY <1>0, Capacity DEF RecvOK
<1>3. RecvAccCap >= 2 + MaxFrameLen /\ RecvAccCap > 2
  BY <1>2
<1>4. ASSUME inbound = <<>> PROVE acc < RecvAccCap
  <2>1. PICK p : Sums(p, inbound) /\ p[Len(inbound)] = acc + sock + flight
    BY Zenon, <1>0 DEF Conserved
  <2>2. Len(inbound) = 0 /\ p[0] = 0
    BY <1>4, <2>1 DEF Sums
  <2>3. acc + sock + flight = 0 /\ sock \in Nat /\ flight \in Nat
    BY <1>0, <2>1, <2>2 DEF NetOK
  <2> QED BY <1>2, <1>3, <2>3
<1>5. ASSUME inbound # <<>> PROVE acc < RecvAccCap
  <2>1. First \in AllFrames
    <3>1. inbound \in Seq(AllFrames)
      BY Zenon, <1>0 DEF RecvOK
    <3> QED BY Zenon, <1>5, <3>1, SeqTail DEF First
  <2>2. /\ First.len \in Nat /\ First.masked \in BOOLEAN
        /\ Size(First) = (IF First.masked THEN 2 ELSE 1) + First.len
    BY Zenon, <2>1, SizeIsPositive
  <2>3. HeaderLen(First.masked) = IF First.masked THEN 2 ELSE 1
    BY Zenon DEF HeaderLen
  <2>4. CASE ~HeaderReady
    <3>1. ~(acc >= HeaderLen(First.masked))
      BY Zenon, <1>5, <2>4 DEF HeaderReady, First
    <3> QED BY <1>2, <1>3, <2>2, <2>3, <3>1
  <2>5. CASE HeaderReady
    <3>1. ~(acc >= Size(First)) /\ ~(First.len > MaxFrameLen)
      BY Zenon, <1>1, <2>5 DEF Illegal
    <3> QED BY <1>2, <1>3, <2>2, <3>1
  <2> QED BY Zenon, <2>4, <2>5
<1>6. acc < RecvAccCap
  BY Zenon, <1>4, <1>5
<1>7. "extract" # "write" /\ "extract" # "read"
  OBVIOUS
<1> QED BY Zenon, <1>1, <1>6, <1>7, ReturnIInv

(* cloak_conn_send. *)
LEMMA SendIInv == ASSUME IInv, NEW len \in OutLens, Send(len) PROVE IInv'
<1>0. /\ SendOK /\ RecvOK /\ NetOK /\ StackOK /\ Conserved
  BY Zenon DEF IInv, Shape
<1>1. ~broken /\ UNCHANGED <<rx_resume_timer, receiving, network, tokens>>
  BY Zenon DEF Send
<1>2. RecvOK' /\ NetOK' /\ Conserved'
  BY Zenon, <1>0, <1>1, Untouched DEF receiving, network
<1>3. CASE len > MaxFrameLen
  <2>1. MarkBroken /\ UNCHANGED <<sending, read_paused, interest, stack>>
    BY Zenon, <1>3 DEF Send
  <2>2. SendOK' /\ StackOK'
    BY Zenon, <1>0, <2>1, Untouched DEF StackOK
  <2> QED BY Zenon, <1>1, <1>2, <2>1, <2>2, BreakIInv
<1>4. CASE ~(len > MaxFrameLen)
  <2>1. Enqueue("data", len, stack) /\ "data" \in {"data", "pong", "close"} /\ len \in Nat
    BY Zenon, <1>4, ConnAssumption DEF Send
  <2>2. In("extract", stack) \/ acc' < RecvAccCap'
    <3>1. acc' = acc /\ RecvAccCap' = RecvAccCap
      BY Zenon, <1>1 DEF receiving, RecvAccCap, MaxRecvEnvelope, PeerMasks
    <3> QED BY Zenon, <1>1, <3>1 DEF IInv, Live, RoomLeft
  <2>3. stack \in Seq(Calls) /\ Nest(stack)
    BY Zenon, <1>0 DEF StackOK
  <2>4. UNCHANGED <<rx_resume_timer, sock, flight, peer, tokens>>
    BY Zenon, <1>1 DEF network
  <2> QED BY Zenon, <1>1, <1>2, <2>1, <2>2, <2>3, <2>4, EnqueueIInv
<1> QED BY Zenon, <1>3, <1>4

(* The drain conn_reactor_cb calls for EPOLLOUT. *)
LEMMA OnWritableIInv == ASSUME IInv, OnWritable PROVE IInv'
<1>0. /\ SendOK /\ RecvOK /\ NetOK /\ StackOK /\ Conserved
  BY Zenon DEF IInv, Shape
<1>1. /\ ~broken /\ stack # <<>> /\ Head(stack) = "write" /\ TryDrain(send_q, Tail(stack))
      /\ UNCHANGED <<rx_resume_timer, receiving, network, tokens, accepted>>
  BY Zenon DEF OnWritable, Running, Idle
<1>2. RecvOK' /\ Conserved'
  BY Zenon, <1>0, <1>1, Untouched DEF receiving, network
<1>3. /\ Tail(stack) \in Seq(Calls) /\ Nest(Tail(stack))
      /\ \A d : In(d, stack) <=> d = Head(stack) \/ In(d, Tail(stack))
  BY Zenon, <1>0, <1>1, Popped DEF StackOK
<1>4. /\ In("read", stack) => In("read", Tail(stack))
      /\ In("extract", stack) => In("extract", Tail(stack))
  <2>1. "read" # "write" /\ "extract" # "write"
    OBVIOUS
  <2> QED BY Zenon, <1>1, <1>3, <2>1
<1>5. In("extract", Tail(stack)) \/ acc' < RecvAccCap'
  <2>1. acc' = acc /\ RecvAccCap' = RecvAccCap
    BY Zenon, <1>1 DEF receiving, RecvAccCap, MaxRecvEnvelope, PeerMasks
  <2> QED BY Zenon, <1>1, <1>4, <2>1 DEF IInv, Live, RoomLeft
<1>6. /\ send_q \in Seq(Nat) /\ Len(send_q) <= SendQueueCap
      /\ accepted' \in Seq({"data", "pong", "close"} \X Nat)
  BY Zenon, <1>0, <1>1 DEF SendOK
<1>7. UNCHANGED <<rx_resume_timer, sock, flight, peer, tokens>>
  BY Zenon, <1>1 DEF network
<1> QED BY Zenon, <1>1, <1>2, <1>3, <1>4, <1>5, <1>6, <1>7, DrainIInv

(* The end of the stream, or an error of the socket. *)
LEMMA ReadFailsIInv == ASSUME IInv, ReadFails PROVE IInv'
<1>0. /\ SendOK /\ RecvOK /\ NetOK /\ StackOK /\ Conserved
  BY Zenon DEF IInv, Shape
<1>1. /\ MarkBroken /\ stack # <<>> /\ stack' = Tail(stack)
      /\ UNCHANGED <<read_paused, interest, rx_resume_timer, sending, receiving,
                     network, tokens>>
  BY Zenon DEF ReadFails, Running, Idle
<1>2. SendOK' /\ RecvOK' /\ NetOK' /\ Conserved'
  BY Zenon, <1>0, <1>1, Untouched DEF receiving, network
<1>3. StackOK'
  BY Zenon, <1>0, <1>1, Popped DEF StackOK
<1> QED BY Zenon, <1>1, <1>2, <1>3, BreakIInv

(* A frame that is refused breaks the connection. *)
LEMMA ExtractIllegalIInv == ASSUME IInv, ExtractIllegal PROVE IInv'
<1>0. /\ SendOK /\ RecvOK /\ NetOK /\ StackOK /\ Conserved
  BY Zenon DEF IInv, Shape
<1>1. /\ MarkBroken /\ stack # <<>> /\ stack' = Tail(stack)
      /\ UNCHANGED <<read_paused, interest, rx_resume_timer, sending, receiving,
                     network, tokens>>
  BY Zenon DEF ExtractIllegal, Extracting, Running, Idle
<1>2. SendOK' /\ RecvOK' /\ NetOK' /\ Conserved'
  BY Zenon, <1>0, <1>1, Untouched DEF receiving, network
<1>3. StackOK'
  BY Zenon, <1>0, <1>1, Popped DEF StackOK
<1> QED BY Zenon, <1>1, <1>2, <1>3, BreakIInv

(* A close frame ends the connection once it was echoed. *)
LEMMA CloseBreaksIInv == ASSUME IInv, CloseBreaks PROVE IInv'
<1>0. /\ SendOK /\ RecvOK /\ NetOK /\ StackOK /\ Conserved
  BY Zenon DEF IInv, Shape
<1>1. /\ MarkBroken /\ stack # <<>> /\ stack' = Tail(stack)
      /\ UNCHANGED <<read_paused, interest, rx_resume_timer, sending, receiving,
                     network, tokens>>
  BY Zenon DEF CloseBreaks, Running, Idle
<1>2. SendOK' /\ RecvOK' /\ NetOK' /\ Conserved'
  BY Zenon, <1>0, <1>1, Untouched DEF receiving, network
<1>3. StackOK'
  BY Zenon, <1>0, <1>1, Popped DEF StackOK
<1> QED BY Zenon, <1>1, <1>2, <1>3, BreakIInv

(* One read(): at most what recv_acc has room for and the bucket allows. *)
LEMMA ReadIInv == ASSUME IInv, Read PROVE IInv'
<1>0. /\ SendOK /\ RecvOK /\ NetOK /\ FlagsOK /\ StackOK /\ Conserved /\ Told
  BY Zenon DEF IInv, Shape
<1> DEFINE n == Min({Allowed, sock})
<1>1. /\ Running("read") /\ ~broken /\ Allowed > 0 /\ sock > 0
      /\ sock' = sock - n /\ acc' = acc + n
      /\ tokens' = IF Limited THEN tokens - n ELSE tokens
      /\ stack' = <<"extract">> \o stack
      /\ UNCHANGED <<broken, read_paused, interest, rx_resume_timer, sending,
                     inbound, ws, flight, peer, edge, closed>>
  BY Zenon DEF Read
<1>2. acc \in Nat /\ RecvAccCap \in Nat /\ Want \in 1..RecvAccCap - acc
  BY Zenon, <1>1, ReadHasRoom
<1>3. sock \in Nat /\ flight \in Nat /\ tokens \in Nat /\ Limited \in BOOLEAN
  BY Zenon, <1>0, ConnAssumption DEF NetOK, FlagsOK
<1>4. Want \in Nat /\ Want <= RecvAccCap - acc
  BY <1>2
<1>5. Allowed \in Nat /\ Allowed <= Want /\ (Limited => Allowed <= tokens)
  <2>1. Min({Want, tokens}) = IF Want <= tokens THEN Want ELSE tokens
    BY Zenon, <1>3, <1>4, MinOfTwo
  <2>2. Allowed = IF Limited THEN (IF Want <= tokens THEN Want ELSE tokens) ELSE Want
    BY Zenon, <2>1 DEF Allowed
  <2> HIDE DEF n
  <2> QED BY <1>3, <1>4, <2>2
<1>6. n = IF Allowed <= sock THEN Allowed ELSE sock
  BY Zenon, <1>3, <1>5, MinOfTwo
<1> HIDE DEF n
<1>7. n \in Nat /\ n <= sock /\ n <= RecvAccCap - acc /\ (Limited => n <= tokens)
  BY <1>2, <1>3, <1>4, <1>5, <1>6
<1>8. RecvAccCap' = RecvAccCap
  BY Zenon, <1>1 DEF RecvAccCap, MaxRecvEnvelope, PeerMasks
<1>9. /\ sock' \in Nat /\ tokens' \in Nat /\ acc' \in 0..RecvAccCap'
      /\ acc' + sock' + flight' = acc + sock + flight
  BY <1>1, <1>2, <1>3, <1>7, <1>8
<1>10. SendOK' /\ RecvOK' /\ NetOK' /\ FlagsOK' /\ Told'
  BY Zenon, <1>0, <1>1, <1>9, Untouched DEF RecvOK, NetOK, FlagsOK, Told
<1>11. Conserved'
  BY Zenon, <1>0, <1>1, <1>9 DEF Conserved, Sums
<1>12. /\ stack' \in Seq(Calls) /\ Nest(stack')
       /\ \A d : In(d, stack') <=> d = "extract" \/ In(d, stack)
  <2>1. "extract" \in Calls /\ "extract" # "read" /\ stack \in Seq(Calls) /\ Nest(stack)
    BY <1>0 DEF Calls, StackOK
  <2>2. /\ <<"extract">> \o stack \in Seq(Calls) /\ Nest(<<"extract">> \o stack)
        /\ \A d : In(d, <<"extract">> \o stack) <=> d = "extract" \/ In(d, stack)
    BY Zenon, <2>1, Pushed
  <2> QED BY Zenon, <1>1, <2>2
<1>13. In("read", stack)
  BY Zenon, <1>0, <1>1, Popped DEF Running, Idle, StackOK
<1>14. Watches' /\ SendAwake' /\ ReadAwake' /\ RoomLeft'
  <2>1. Watches /\ SendAwake /\ ReadAwake
    BY Zenon, <1>1 DEF IInv, Live
  <2>2. Watches' /\ SendAwake'
    BY Zenon, <1>1, <1>12, <2>1 DEF Watches, SendAwake, sending
  <2> QED BY Zenon, <1>1, <1>12, <1>13, <2>1, <2>2 DEF ReadAwake, RoomLeft
<1> QED BY Zenon, <1>10, <1>11, <1>12, <1>14 DEF IInv, Shape, StackOK, Live

(* conn_pause_read_for_rate: a timer or no connection. *)
LEMMA ReadRefusedIInv == ASSUME IInv, ReadRefused PROVE IInv'
<1>0. /\ SendOK /\ RecvOK /\ NetOK /\ FlagsOK /\ StackOK /\ Conserved /\ Told
  BY Zenon DEF IInv, Shape
<1>1. /\ stack # <<>> /\ Head(stack) = "read" /\ ~broken /\ Pause /\ stack' = Tail(stack)
      /\ UNCHANGED <<send_q, accepted, receiving, network, tokens>>
  BY Zenon DEF ReadRefused, Running, Idle
<1>2. /\ stack' \in Seq(Calls) /\ Nest(stack')
      /\ \A d : In(d, stack) <=> d = "read" \/ In(d, stack')
  BY Zenon, <1>0, <1>1, Popped DEF StackOK
<1>3. UNCHANGED <<kbuf, want_writable>>
  BY Zenon, <1>1 DEF Pause
<1>4. SendOK' /\ RecvOK' /\ NetOK' /\ Conserved'
  BY Zenon, <1>0, <1>1, <1>3, Untouched DEF sending, receiving, network
<1>5. CASE MarkBroken /\ UNCHANGED <<rx_resume_timer, read_paused, interest>>
  BY Zenon, <1>1, <1>2, <1>4, <1>5, BreakIInv DEF StackOK
<1>6. CASE /\ rx_resume_timer' = TRUE /\ read_paused' = TRUE
           /\ UNCHANGED <<broken, closed>> /\ SyncInterest
  <2>1. want_writable' \in BOOLEAN /\ read_paused' \in BOOLEAN
    BY Zenon, <1>0, <1>3, <1>6 DEF SendOK
  <2>2. /\ Watches' /\ interest' \subseteq {"R", "W"} /\ edge' \subseteq {"R", "W"}
        /\ want_writable' /\ "W" \in edge => "W" \in edge'
    BY Zenon, <1>0, <1>6, <2>1, SyncFacts DEF FlagsOK
  <2>3. FlagsOK' /\ Told'
    BY Zenon, <1>0, <1>1, <1>6, <2>1, <2>2 DEF FlagsOK, Told
  <2>4. SendAwake /\ RoomLeft
    BY Zenon, <1>1 DEF IInv, Live
  <2>5. "write" # "read" /\ "extract" # "read"
    OBVIOUS
  <2>6. SendAwake'
    BY Zenon, <1>1, <1>2, <1>3, <2>2, <2>4, <2>5 DEF SendAwake
  <2>7. ReadAwake'
    BY Zenon, <1>6 DEF ReadAwake
  <2>8. RoomLeft'
    <3>1. acc' = acc /\ RecvAccCap' = RecvAccCap
      BY Zenon, <1>1 DEF receiving, RecvAccCap, MaxRecvEnvelope, PeerMasks
    <3> QED BY Zenon, <1>2, <2>4, <2>5, <3>1 DEF RoomLeft
  <2> QED BY Zenon, <1>2, <1>4, <2>2, <2>3, <2>6, <2>7, <2>8 DEF IInv, Shape, StackOK, Live
<1> QED BY Zenon, <1>1, <1>5, <1>6 DEF Pause

(* conn_rx_resume_cb. *)
LEMMA RxResumeIInv == ASSUME IInv, RxResume PROVE IInv'
<1>0. /\ SendOK /\ RecvOK /\ NetOK /\ FlagsOK /\ StackOK /\ Conserved /\ Told
  BY Zenon DEF IInv, Shape
<1>1. /\ stack = <<>> /\ rx_resume_timer' = FALSE /\ tokens' \in Nat
      /\ UNCHANGED <<broken, closed, sending, receiving, network>>
  BY Zenon, ConnAssumption DEF RxResume, Idle
<1>2. SendOK' /\ RecvOK' /\ NetOK' /\ Conserved' /\ Told'
  BY Zenon, <1>0, <1>1, Untouched DEF receiving, network, Told
<1>3. CASE broken
  <2>1. UNCHANGED <<read_paused, interest, edge, stack>>
    BY Zenon, <1>3 DEF RxResume
  <2>2. FlagsOK' /\ StackOK'
    BY Zenon, <1>0, <1>1, <2>1 DEF FlagsOK, StackOK
  <2> QED BY Zenon, <1>1, <1>2, <1>3, <2>2 DEF IInv, Shape, Live
<1>4. CASE ~broken
  <2>1. read_paused' = FALSE /\ stack' = <<"read">> /\ SyncInterest
    BY Zenon, <1>4 DEF RxResume
  <2>2. stack' \in Seq(Calls) /\ Nest(stack') /\ In("read", stack') /\ ~In("extract", stack')
    BY <2>1 DEF Calls, Nest, In
  <2>3. want_writable' \in BOOLEAN /\ read_paused' \in BOOLEAN
    BY Zenon, <1>2, <2>1 DEF SendOK
  <2>4. /\ Watches' /\ interest' \subseteq {"R", "W"} /\ edge' \subseteq {"R", "W"}
        /\ want_writable' /\ "W" \in edge => "W" \in edge'
    BY Zenon, <1>0, <2>1, <2>3, SyncFacts DEF FlagsOK
  <2>5. FlagsOK'
    BY Zenon, <1>0, <1>1, <2>3, <2>4 DEF FlagsOK
  <2>6. SendAwake /\ RoomLeft /\ \A c : ~In(c, stack)
    BY Zenon, <1>1, <1>4, NoneInEmpty DEF IInv, Live
  <2>7. SendAwake'
    BY Zenon, <1>1, <2>4, <2>6 DEF SendAwake, sending
  <2>8. ReadAwake' /\ RoomLeft'
    <3>1. acc' = acc /\ RecvAccCap' = RecvAccCap
      BY Zenon, <1>1 DEF receiving, RecvAccCap, MaxRecvEnvelope, PeerMasks
    <3> QED BY Zenon, <2>1, <2>2, <2>6, <3>1 DEF ReadAwake, RoomLeft
  <2> QED BY Zenon, <1>2, <2>2, <2>4, <2>5, <2>7, <2>8 DEF IInv, Shape, StackOK, Live
<1> QED BY Zenon, <1>3, <1>4

(* conn_reactor_cb: the events that were pending become calls. *)
LEMMA OnEventIInv == ASSUME IInv, OnEvent PROVE IInv'
<1>0. /\ SendOK /\ RecvOK /\ NetOK /\ FlagsOK /\ StackOK /\ Conserved /\ Told
  BY Zenon DEF IInv, Shape
<1>1. /\ stack = <<>> /\ ~broken /\ edge' = {}
      /\ stack' = (IF "R" \in edge THEN <<"read">> ELSE <<>>) \o
                  (IF "W" \in edge THEN <<"write">> ELSE <<>>)
      /\ UNCHANGED <<broken, read_paused, interest, rx_resume_timer, sending,
                     receiving, network, tokens, closed>>
  BY Zenon DEF OnEvent, Idle
<1>2. SendOK' /\ RecvOK' /\ NetOK' /\ Conserved' /\ Told'
  BY Zenon, <1>0, <1>1, Untouched DEF receiving, network, Told
<1>3. FlagsOK'
  <2>1. edge' \subseteq {"R", "W"}
    BY <1>1
  <2> QED BY Zenon, <1>0, <1>1, <2>1 DEF FlagsOK
<1>4. /\ stack' \in Seq(Calls) /\ Nest(stack') /\ ~In("extract", stack')
      /\ "R" \in edge => In("read", stack')
      /\ "W" \in edge => In("write", stack')
  <2>1. "read" \in Calls /\ "write" \in Calls /\ "read" # "extract" /\ "write" # "extract"
        /\ "write" # "read"
    BY DEF Calls
  <2>2. /\ <<"write">> \o <<>> \in Seq(Calls) /\ Nest(<<"write">> \o <<>>)
        /\ \A d : In(d, <<"write">> \o <<>>) <=> d = "write"
    BY Zenon, <2>1, NoneInEmpty, Pushed
  <2>3. <<"write">> \o <<>> = <<"write">> /\ <<>> \o <<"write">> = <<"write">>
    OBVIOUS
  <2>4. PICK w : w = IF "W" \in edge THEN <<"write">> ELSE <<>>
    BY Zenon
  <2>5. /\ w \in Seq(Calls) /\ Nest(w)
        /\ \A d : In(d, w) <=> d = "write" /\ "W" \in edge
    BY Zenon, <2>2, <2>3, <2>4, NoneInEmpty
  <2>6. /\ <<"read">> \o w \in Seq(Calls) /\ Nest(<<"read">> \o w)
        /\ \A d : In(d, <<"read">> \o w) <=> d = "read" \/ In(d, w)
    BY Zenon, <2>1, <2>5, Pushed
  <2>7. <<>> \o w = w
    BY <2>5
  <2>8. stack' = IF "R" \in edge THEN <<"read">> \o w ELSE w
    BY Zenon, <1>1, <2>4, <2>7
  <2> QED BY Zenon, <2>1, <2>5, <2>6, <2>8
<1>5. Watches /\ SendAwake /\ ReadAwake /\ RoomLeft /\ \A c : ~In(c, stack)
  BY Zenon, <1>1, NoneInEmpty DEF IInv, Live
<1>6. Watches' /\ SendAwake' /\ ReadAwake'
  BY Zenon, <1>1, <1>4, <1>5 DEF Watches, SendAwake, ReadAwake, sending, network
<1>7. RoomLeft'
  <2>1. acc' = acc /\ RecvAccCap' = RecvAccCap
    BY Zenon, <1>1 DEF receiving, RecvAccCap, MaxRecvEnvelope, PeerMasks
  <2> QED BY Zenon, <1>5, <2>1 DEF RoomLeft
<1> QED BY Zenon, <1>2, <1>3, <1>4, <1>6, <1>7 DEF IInv, Shape, StackOK, Live

(* What conn_extract_and_dispatch knows of the frame it is about to take. *)
LEMMA WholeFacts ==
    ASSUME IInv, Whole
    PROVE  /\ ~broken /\ stack \in Seq(Calls) /\ Nest(stack) /\ In("extract", stack)
           /\ First.len \in Nat /\ ~Illegal /\ acc >= Size(First)
           /\ ws \in [framing : Framings, active : BOOLEAN, len : 0..MaxFrameLen]
<1>1. RecvOK /\ StackOK
  BY Zenon DEF IInv, Shape
<1>2. /\ ~broken /\ stack # <<>> /\ Head(stack) = "extract" /\ inbound # <<>>
      /\ ~Illegal /\ acc >= Size(First)
  BY Zenon DEF Whole, Extracting, Running, Idle, HeaderReady
<1>3. stack \in Seq(Calls) /\ Nest(stack) /\ inbound \in Seq(AllFrames)
      /\ ws \in [framing : Framings, active : BOOLEAN, len : 0..MaxFrameLen]
  BY Zenon, <1>1 DEF StackOK, RecvOK
<1>4. In("extract", stack)
  BY Zenon, <1>2, <1>3, Popped
<1>5. First \in AllFrames
  BY Zenon, <1>2, <1>3, SeqTail DEF First
<1>6. First.len \in Nat
  BY Zenon, <1>5, SizeIsPositive
<1> QED BY Zenon, <1>2, <1>3, <1>4, <1>6

(* Taking a frame that is not answered touches recv_acc only. *)
LEMMA TakeQuietIInv ==
    ASSUME IInv, ~broken, In("extract", stack), RecvOK', Conserved',
           stack' = stack \/ stack' = <<"envelope">> \o stack,
           UNCHANGED <<broken, read_paused, interest, rx_resume_timer, sending,
                       network, edge, tokens, closed>>
    PROVE  IInv'
<1>0. /\ SendOK /\ NetOK /\ FlagsOK /\ StackOK /\ Told
  BY Zenon DEF IInv, Shape
<1>1. SendOK' /\ NetOK' /\ FlagsOK' /\ Told'
  BY Zenon, <1>0, Untouched DEF network, FlagsOK, Told
<1>2. StackOK' /\ \A d : In(d, stack) => In(d, stack')
  <2>1. "envelope" \in Calls /\ "envelope" # "read" /\ stack \in Seq(Calls) /\ Nest(stack)
    BY <1>0 DEF Calls, StackOK
  <2>2. /\ <<"envelope">> \o stack \in Seq(Calls) /\ Nest(<<"envelope">> \o stack)
        /\ \A d : In(d, stack) => In(d, <<"envelope">> \o stack)
    BY Zenon, <2>1, Pushed
  <2>3. CASE stack' = stack
    BY Zenon, <2>1, <2>3 DEF StackOK
  <2>4. CASE stack' = <<"envelope">> \o stack
    BY Zenon, <2>2, <2>4 DEF StackOK
  <2> QED BY Zenon, <2>3, <2>4
<1>3. Watches /\ SendAwake /\ ReadAwake
  BY Zenon DEF IInv, Live
<1>4. Watches' /\ SendAwake'
  BY Zenon, <1>2, <1>3 DEF Watches, SendAwake, sending
<1>5. ReadAwake' /\ RoomLeft'
  BY Zenon, <1>2, <1>3 DEF ReadAwake, RoomLeft, network
<1> QED BY Zenon, <1>1, <1>2, <1>4, <1>5 DEF IInv, Shape, Live

(* A ping is answered. *)
LEMMA TakePingIInv == ASSUME IInv, TakePing PROVE IInv'
<1>1. /\ Whole /\ Take /\ Enqueue("pong", First.len, stack)
      /\ UNCHANGED <<rx_resume_timer, ws, sock, flight, peer, tokens>>
  BY Zenon DEF TakePing, network
<1>2. /\ ~broken /\ stack \in Seq(Calls) /\ Nest(stack) /\ In("extract", stack)
      /\ First.len \in Nat
      /\ ws \in [framing : Framings, active : BOOLEAN, len : 0..MaxFrameLen]
  BY Zenon, <1>1, WholeFacts
<1>3. RecvOK' /\ Conserved'
  BY Zenon, <1>1, <1>2, TakeFacts
<1>4. "pong" \in {"data", "pong", "close"}
  OBVIOUS
<1> QED BY Zenon, <1>1, <1>2, <1>3, <1>4, EnqueueIInv

(* A pong is dropped. *)
LEMMA TakePongIInv == ASSUME IInv, TakePong PROVE IInv'
<1>1. /\ Whole /\ Take /\ UNCHANGED <<ws, sock, flight, stack>>
      /\ UNCHANGED <<broken, read_paused, interest, rx_resume_timer, sending,
                     network, edge, tokens, closed>>
  BY Zenon DEF TakePong, network
<1>2. /\ ~broken /\ In("extract", stack)
      /\ ws \in [framing : Framings, active : BOOLEAN, len : 0..MaxFrameLen]
  BY Zenon, <1>1, WholeFacts
<1>3. RecvOK' /\ Conserved'
  BY Zenon, <1>1, <1>2, TakeFacts
<1> QED BY Zenon, <1>1, <1>2, <1>3, TakeQuietIInv

(* A close is echoed before it ends the connection. *)
LEMMA TakeCloseIInv == ASSUME IInv, TakeClose PROVE IInv'
<1>1. /\ Whole /\ Take /\ Enqueue("close", First.len, <<"closing">> \o stack)
      /\ UNCHANGED <<rx_resume_timer, ws, sock, flight, peer, tokens>>
  BY Zenon DEF TakeClose, network
<1>2. /\ ~broken /\ stack \in Seq(Calls) /\ Nest(stack) /\ In("extract", stack)
      /\ First.len \in Nat
      /\ ws \in [framing : Framings, active : BOOLEAN, len : 0..MaxFrameLen]
  BY Zenon, <1>1, WholeFacts
<1>3. RecvOK' /\ Conserved'
  BY Zenon, <1>1, <1>2, TakeFacts
<1>4. "close" \in {"data", "pong", "close"} /\ "closing" \in Calls /\ "closing" # "read"
  BY DEF Calls
<1>5. /\ <<"closing">> \o stack \in Seq(Calls) /\ Nest(<<"closing">> \o stack)
      /\ \A d : In(d, stack) => In(d, <<"closing">> \o stack)
  BY Zenon, <1>2, <1>4, Pushed
<1> QED BY Zenon, <1>1, <1>2, <1>3, <1>4, <1>5, EnqueueIInv

(* The progress of a message, as conn.c records it. *)
LEMMA Progress ==
    ASSUME NEW w \in [framing : Framings, active : BOOLEAN, len : 0..MaxFrameLen],
           NEW l \in 0..MaxFrameLen, NEW a \in BOOLEAN
    PROVE  /\ [w EXCEPT !.active = a, !.len = l] \in
                  [framing : Framings, active : BOOLEAN, len : 0..MaxFrameLen]
           /\ [w EXCEPT !.active = a, !.len = l].framing = w.framing
  BY Zenon

(* A data frame: the message it belongs to stays within max_frame_len. *)
LEMMA TakeDataIInv == ASSUME IInv, TakeData PROVE IInv'
<1>1. /\ Whole /\ Take /\ ~Control(First)
      /\ \/ /\ IsWs /\ ws' = [ws EXCEPT !.active = TRUE, !.len = @ + First.len]
            /\ stack' = stack
         \/ /\ ws' = [ws EXCEPT !.active = FALSE, !.len = 0]
            /\ stack' = <<"envelope">> \o stack
      /\ UNCHANGED <<broken, read_paused, interest, rx_resume_timer, sending,
                     network, edge, tokens, closed>>
  BY Zenon DEF TakeData
<1>2. /\ ~broken /\ In("extract", stack) /\ First.len \in Nat /\ ~Illegal
      /\ acc >= Size(First)
      /\ ws \in [framing : Framings, active : BOOLEAN, len : 0..MaxFrameLen]
  BY Zenon, <1>1, WholeFacts
<1>3. MaxFrameLen \in Nat
  BY ConnAssumption
<1>4. /\ ws' \in [framing : Framings, active : BOOLEAN, len : 0..MaxFrameLen]
      /\ ws'.framing = ws.framing
  <2>1. ws.framing \in Framings /\ ws.len \in 0..MaxFrameLen
    BY <1>2
  <2>2. CASE IsWs /\ ws' = [ws EXCEPT !.active = TRUE, !.len = @ + First.len]
    <3>1. ~(First.len > MaxFrameLen - ws.len)
      BY Zenon, <1>1, <1>2, <2>2 DEF Illegal
    <3>2. ws.len + First.len \in 0..MaxFrameLen
      BY <1>2, <1>3, <2>1, <3>1
    <3> QED BY Zenon, <1>2, <2>2, <3>2, Progress
  <2>3. CASE ws' = [ws EXCEPT !.active = FALSE, !.len = 0]
    <3>1. 0 \in 0..MaxFrameLen
      BY <1>3
    <3> QED BY Zenon, <1>2, <2>3, <3>1, Progress
  <2> QED BY Zenon, <1>1, <2>2, <2>3
<1>5. UNCHANGED <<sock, flight>>
  BY Zenon, <1>1 DEF network
<1>6. RecvOK' /\ Conserved'
  BY Zenon, <1>1, <1>4, <1>5, TakeFacts
<1> QED BY Zenon, <1>1, <1>2, <1>6, TakeQuietIInv

-----------------------------------------------------------------------------
(* The network. *)

(* Whatever the network does, it only adds to what is pending. *)
LEMMA NetworkIInv ==
    ASSUME IInv, SendOK', RecvOK', NetOK', Conserved',
           edge' \subseteq {"R", "W"}, ~broken => edge \subseteq edge',
           ~broken /\ ~read_paused /\ sock' > 0 =>
               sock > 0 \/ "R" \in edge',
           ~broken /\ want_writable /\ Len(kbuf') < SockCap =>
               Len(kbuf) < SockCap \/ "W" \in edge',
           UNCHANGED <<broken, read_paused, interest, rx_resume_timer, send_q,
                       want_writable, acc, ws, tokens, stack, closed>>
    PROVE  IInv'
<1>1. FlagsOK /\ StackOK /\ Told
  BY Zenon DEF IInv, Shape
<1>2. FlagsOK' /\ StackOK' /\ Told'
  BY Zenon, <1>1 DEF FlagsOK, StackOK, Told
<1>3. CASE broken
  BY Zenon, <1>2, <1>3 DEF IInv, Shape, Live
<1>4. CASE ~broken
  <2>1. Watches /\ SendAwake /\ ReadAwake /\ RoomLeft
    BY Zenon, <1>4 DEF IInv, Live
  <2>2. Watches'
    BY Zenon, <2>1 DEF Watches
  <2>3. SendAwake'
    BY Zenon, <1>4, <2>1 DEF SendAwake
  <2>4. ReadAwake'
    BY Zenon, <1>4, <2>1 DEF ReadAwake
  <2>5. RoomLeft'
    <3>1. RecvAccCap' = RecvAccCap
      BY Zenon DEF RecvAccCap, MaxRecvEnvelope, PeerMasks
    <3> QED BY Zenon, <2>1, <3>1 DEF RoomLeft
  <2> QED BY Zenon, <1>2, <2>2, <2>3, <2>4, <2>5 DEF IInv, Shape, Live
<1> QED BY Zenon, <1>3, <1>4

(* epoll watches for what the flags say. *)
LEMMA WatchFacts ==
    ASSUME IInv, NEW events \in SUBSET {"R", "W"}, Watch(events)
    PROVE  /\ edge' \subseteq {"R", "W"}
           /\ ~broken => edge \subseteq edge' /\ events \subseteq edge'
           /\ ~broken /\ ~read_paused => "R" \in interest
           /\ ~broken /\ want_writable => "W" \in interest
<1>1. FlagsOK /\ (~broken => Watches)
  BY Zenon DEF IInv, Shape, Live
<1>2. edge \subseteq {"R", "W"} /\ edge' = IF broken THEN {} ELSE edge \cup events
  BY Zenon, <1>1 DEF FlagsOK, Watch
<1>3. ~broken /\ ~read_paused => "R" \in interest
  BY <1>1 DEF Watches
<1>4. ~broken /\ want_writable => "W" \in interest
  BY <1>1 DEF Watches
<1>5. edge' \subseteq {"R", "W"} /\ (~broken => edge \subseteq edge' /\ events \subseteq edge')
  BY Zenon, <1>2
<1> QED BY Zenon, <1>3, <1>4, <1>5

(* The peer sends a frame: its units are under way. *)
LEMMA PeerSendsIInv ==
    ASSUME IInv, NEW f \in InFrames[ws.framing], PeerSends(f) PROVE IInv'
<1>0. SendOK /\ RecvOK /\ NetOK /\ FlagsOK /\ Conserved
  BY Zenon DEF IInv, Shape
<1>1. /\ inbound' = Append(inbound, f) /\ flight' = flight + Size(f)
      /\ UNCHANGED <<broken, read_paused, interest, rx_resume_timer, sending,
                     acc, ws, sock, peer, edge, tokens, stack, closed>>
  BY Zenon DEF PeerSends
<1>2. f \in AllFrames /\ Size(f) \in Nat
  <2>1. ws.framing \in Framings
    BY <1>0 DEF RecvOK
  <2>2. f \in AllFrames
    BY Zenon, <2>1 DEF AllFrames
  <2> QED BY <2>2, SizeIsPositive
<1>3. inbound \in Seq(AllFrames) /\ acc \in Nat /\ sock \in Nat /\ flight \in Nat
  <2>1. acc \in 0..RecvAccCap /\ RecvAccCap \in Nat
    BY Zenon, <1>0, Capacity DEF RecvOK
  <2>2. acc \in Nat
    BY <2>1
  <2> QED BY Zenon, <1>0, <2>2 DEF RecvOK, NetOK
<1>4. /\ inbound' \in Seq(AllFrames) /\ Len(inbound') = Len(inbound) + 1 /\ Len(inbound) \in Nat
      /\ inbound'[Len(inbound) + 1] = f
      /\ \A k \in 1..Len(inbound) : inbound'[k] = inbound[k]
  BY <1>1, <1>2, <1>3
<1>5. RecvOK'
  <2>1. RecvAccCap' = RecvAccCap
    BY Zenon, <1>1 DEF RecvAccCap, MaxRecvEnvelope, PeerMasks
  <2> QED BY Zenon, <1>0, <1>1, <1>4, <2>1 DEF RecvOK
<1>6. NetOK'
  <2>1. flight' \in Nat
    BY <1>1, <1>2, <1>3
  <2> QED BY Zenon, <1>0, <1>1, <2>1 DEF NetOK
<1>7. Conserved'
  <2>1. PICK p : Sums(p, inbound) /\ p[Len(inbound)] = acc + sock + flight
    BY Zenon, <1>0 DEF Conserved
  <2> DEFINE l == Len(inbound)
             r == [k \in 0..l + 1 |-> IF k <= l THEN p[k] ELSE p[l] + Size(f)]
  <2>2. /\ p \in [0..l -> Int] /\ p[0] = 0 /\ p[l] = acc + sock + flight
        /\ \A k \in 1..l : p[k] = p[k - 1] + Size(inbound[k])
    BY Zenon, <2>1 DEF Sums
  <2>3. l \in Nat /\ Len(inbound') = l + 1 /\ inbound'[l + 1] = f
        /\ \A k \in 1..l : inbound'[k] = inbound[k]
    BY Zenon, <1>4
  <2> HIDE DEF l
  <2>4. r \in [0..l + 1 -> Int] /\ r[0] = 0 /\ r[l + 1] = p[l] + Size(f)
    BY <1>2, <2>2, <2>3
  <2>5. ASSUME NEW k \in 1..l + 1 PROVE r[k] = r[k - 1] + Size(inbound'[k])
    <3>1. k - 1 \in 0..l /\ k - 1 \in 0..l + 1 /\ k \in 0..l + 1 /\ k - 1 <= l
          /\ (k <= l \/ (k = l + 1 /\ k - 1 = l /\ ~(k <= l)))
      BY <2>3
    <3>2. r[k - 1] = p[k - 1] /\ r[k] = IF k <= l THEN p[k] ELSE p[l] + Size(f)
      BY Zenon, <3>1
    <3> HIDE DEF r
    <3>3. CASE k <= l
      <4>1. k \in 1..l
        BY <2>3, <3>3
      <4> QED BY Zenon, <2>2, <2>3, <3>2, <3>3, <4>1
    <3>4. CASE ~(k <= l)
      BY Zenon, <2>3, <3>1, <3>2, <3>4
    <3> QED BY Zenon, <3>3, <3>4
  <2> HIDE DEF r
  <2>6. Sums(r, inbound')
    BY Zenon, <2>3, <2>4, <2>5 DEF Sums
  <2>7. r[Len(inbound')] = acc' + sock' + flight'
    <3>1. r[l + 1] = acc' + sock' + flight'
      BY <1>1, <1>2, <1>3, <2>2, <2>4
    <3> QED BY Zenon, <2>3, <3>1
  <2> QED BY Zenon, <2>6, <2>7 DEF Conserved, Sums
<1>8. SendOK'
  BY Zenon, <1>0, <1>1, Untouched
<1>9. edge' \subseteq {"R", "W"} /\ edge \subseteq edge' /\ UNCHANGED <<kbuf, send_q, want_writable>>
  BY Zenon, <1>0, <1>1 DEF FlagsOK, sending
<1> QED BY Zenon, <1>1, <1>5, <1>6, <1>7, <1>8, <1>9, NetworkIInv

(* Units arrive: a connection that reads is told. *)
LEMMA ArriveIInv == ASSUME IInv, NEW n \in Nat, Arrive(n) PROVE IInv'
<1>0. SendOK /\ RecvOK /\ NetOK /\ Conserved
  BY Zenon DEF IInv, Shape
<1>1. /\ n \in 1..flight /\ flight' = flight - n /\ sock' = sock + n
      /\ Watch(interest \cap {"R"})
      /\ UNCHANGED <<broken, read_paused, interest, rx_resume_timer, sending,
                     inbound, acc, ws, peer, tokens, stack, closed>>
  BY Zenon DEF Arrive, receiving
<1>2. acc \in Nat /\ sock \in Nat /\ flight \in Nat
  <2>1. acc \in 0..RecvAccCap /\ RecvAccCap \in Nat
    BY Zenon, <1>0, Capacity DEF RecvOK
  <2>2. acc \in Nat
    BY <2>1
  <2> QED BY Zenon, <1>0, <2>2 DEF NetOK
<1>3. sock' \in Nat /\ flight' \in Nat /\ acc' + sock' + flight' = acc + sock + flight
  BY <1>1, <1>2
<1>4. SendOK' /\ RecvOK' /\ NetOK' /\ Conserved'
  <2>1. Conserved'
    BY Zenon, <1>0, <1>1, <1>3 DEF Conserved, Sums
  <2> QED BY Zenon, <1>0, <1>1, <1>3, <2>1, Untouched DEF NetOK
<1>5. interest \cap {"R"} \in SUBSET {"R", "W"}
  OBVIOUS
<1>6. /\ edge' \subseteq {"R", "W"} /\ (~broken => edge \subseteq edge')
      /\ ~broken /\ ~read_paused => "R" \in edge'
  BY Zenon, <1>1, <1>5, WatchFacts
<1> QED BY Zenon, <1>1, <1>4, <1>6, NetworkIInv DEF sending

(* The peer ends the stream or resets it: nothing arrives by that. *)
LEMMA PeerLeavesIInv == ASSUME IInv, PeerEnds \/ PeerResets PROVE IInv'
<1>0. SendOK /\ RecvOK /\ NetOK /\ Conserved
  BY Zenon DEF IInv, Shape
<1>1. /\ peer' \in {"open", "fin", "rst"}
      /\ Watch(interest \cap {"R"}) \/ Watch({"R"})
      /\ UNCHANGED <<broken, read_paused, interest, rx_resume_timer, sending,
                     inbound, acc, ws, sock, flight, tokens, stack, closed>>
  BY Zenon DEF PeerEnds, PeerResets, receiving
<1>2. SendOK' /\ RecvOK' /\ NetOK' /\ Conserved'
  BY Zenon, <1>0, <1>1, Untouched DEF NetOK
<1>3. interest \cap {"R"} \in SUBSET {"R", "W"} /\ {"R"} \in SUBSET {"R", "W"}
  OBVIOUS
<1>4. edge' \subseteq {"R", "W"} /\ (~broken => edge \subseteq edge')
  BY Zenon, <1>1, <1>3, WatchFacts
<1> QED BY Zenon, <1>1, <1>2, <1>4, NetworkIInv DEF sending

(* The send buffer empties: a producer that waits is told, if it was full. *)
LEMMA DeliverIInv == ASSUME IInv, Deliver PROVE IInv'
<1>0. SendOK /\ RecvOK /\ NetOK /\ Conserved
  BY Zenon DEF IInv, Shape
<1>1. /\ kbuf' = <<>>
      /\ Watch(IF Len(kbuf) = SockCap THEN interest \cap {"W"} ELSE {})
      /\ UNCHANGED <<broken, read_paused, interest, rx_resume_timer, send_q,
                     want_writable, accepted, inbound, acc, ws, sock, flight,
                     peer, tokens, stack, closed>>
  BY Zenon DEF Deliver, receiving
<1>2. SendOK'
  <2>1. SockCap \in Nat
    BY ConnAssumption
  <2>2. kbuf' \in Seq(Nat) /\ Len(kbuf') <= SockCap
    BY <1>1, <2>1
  <2> QED BY Zenon, <1>0, <1>1, <2>2 DEF SendOK
<1>3. RecvOK' /\ NetOK' /\ Conserved'
  BY Zenon, <1>0, <1>1, Untouched
<1>4. PICK events : events = IF Len(kbuf) = SockCap THEN interest \cap {"W"} ELSE {}
  BY Zenon
<1>5. events \in SUBSET {"R", "W"} /\ Watch(events)
      /\ (Len(kbuf) = SockCap /\ "W" \in interest => "W" \in events)
  BY Zenon, <1>1, <1>4
<1>6. Len(kbuf) < SockCap \/ Len(kbuf) = SockCap
  BY <1>0, ConnAssumption DEF SendOK
<1>7. /\ edge' \subseteq {"R", "W"} /\ (~broken => edge \subseteq edge')
      /\ ~broken /\ want_writable => Len(kbuf) < SockCap \/ "W" \in edge'
  BY Zenon, <1>5, <1>6, WatchFacts
<1> QED BY Zenon, <1>1, <1>2, <1>3, <1>7, NetworkIInv

-----------------------------------------------------------------------------
(* The theorems. *)

(* A new connection. *)
LEMMA InitIInv == Init => IInv
<1> SUFFICES ASSUME Init PROVE IInv
  OBVIOUS
<1>1. SendOK
  <2>1. want_writable = FALSE /\ send_q = <<>> /\ kbuf = <<>> /\ accepted = <<>>
    BY Zenon DEF Init
  <2>2. SendQueueCap \in Nat /\ SockCap \in Nat
    BY ConnAssumption
  <2>3. <<>> \in Seq(Nat) /\ <<>> \in Seq({"data", "pong", "close"} \X Nat)
    OBVIOUS
  <2>4. Len(<<>>) <= SendQueueCap /\ Len(<<>>) <= SockCap
    BY <2>2
  <2> QED BY Zenon, <2>1, <2>3, <2>4 DEF SendOK
<1>2. RecvOK
  <2>1. MaxFrameLen \in Nat
    BY ConnAssumption
  <2>2. ws \in [framing : Framings, active : BOOLEAN, len : 0..MaxFrameLen]
    <3>1. ws \in [framing : Framings, active : {FALSE}, len : {0}]
      BY Zenon DEF Init
    <3>2. 0 \in 0..MaxFrameLen
      BY <2>1
    <3> QED BY Zenon, <3>1, <3>2
  <2>3. acc = 0 /\ inbound = <<>>
    BY Zenon DEF Init
  <2>4. acc \in 0..RecvAccCap
    BY <2>2, <2>3, Capacity
  <2>5. inbound \in Seq(AllFrames)
    BY <2>3
  <2> QED BY Zenon, <2>2, <2>4, <2>5 DEF RecvOK
<1>3. NetOK /\ Told
  BY DEF Init, NetOK, Told
<1>4. FlagsOK
  <2>1. /\ broken = FALSE /\ read_paused = FALSE /\ rx_resume_timer = FALSE
        /\ interest = {"R"} /\ edge = {} /\ closed = 0 /\ tokens \in Nat
    BY Zenon, ConnAssumption DEF Init
  <2>2. 0 \in Nat
    OBVIOUS
  <2> QED BY Zenon, <2>1, <2>2 DEF FlagsOK
<1>5. StackOK
  BY Zenon, NoneInEmpty DEF Init, StackOK
<1>6. Conserved
  <2>1. inbound = <<>> /\ acc = 0 /\ sock = 0 /\ flight = 0
    BY Zenon DEF Init
  <2> DEFINE p == [k \in 0..0 |-> 0]
  <2>2. p \in [0..Len(<<>>) -> Int] /\ p[0] = 0 /\ Len(<<>>) = 0 /\ 0 + 0 + 0 = 0
        /\ 1..Len(<<>>) = {}
    OBVIOUS
  <2> HIDE DEF p
  <2>3. Sums(p, inbound) /\ p[Len(inbound)] = acc + sock + flight
    BY Zenon, <2>1, <2>2 DEF Sums
  <2> QED BY Zenon, <2>3 DEF Conserved
<1>7. Watches /\ SendAwake /\ ReadAwake
  BY DEF Init, Watches, SendAwake, ReadAwake
<1>8. RoomLeft
  <2>1. acc = 0 /\ ws \in [framing : Framings, active : BOOLEAN, len : 0..MaxFrameLen]
    BY Zenon, <1>2 DEF Init, RecvOK
  <2>2. 0 < RecvAccCap
    <3>1. /\ RecvAccCap = 2 * MaxRecvEnvelope /\ MaxFrameLen \in Nat \ {0}
          /\ MaxRecvEnvelope = (IF PeerMasks THEN 2 ELSE 1) + MaxFrameLen
      BY Zenon, <2>1, Capacity
    <3> QED BY <3>1
  <2> QED BY Zenon, <2>1, <2>2 DEF RoomLeft
<1> QED BY Zenon, <1>1, <1>2, <1>3, <1>4, <1>5, <1>6, <1>7, <1>8 DEF IInv, Shape, Live

(* Every step keeps the invariant. *)
LEMMA NextIInv == IInv /\ [Next]_vars => IInv'
<1> SUFFICES ASSUME IInv, [Next]_vars PROVE IInv'
  OBVIOUS
<1>1. CASE Code
  <2>1. CASE OnEvent  BY Zenon, <2>1, OnEventIInv
  <2>2. CASE Unwind  BY Zenon, <2>2, UnwindIInv
  <2>3. CASE OnWritable  BY Zenon, <2>3, OnWritableIInv
  <2>4. CASE Read  BY Zenon, <2>4, ReadIInv
  <2>5. CASE ReadEmpty  BY Zenon, <2>5, ReadEmptyIInv
  <2>6. CASE ReadFails  BY Zenon, <2>6, ReadFailsIInv
  <2>7. CASE ReadRefused  BY Zenon, <2>7, ReadRefusedIInv
  <2>8. CASE ExtractIllegal  BY Zenon, <2>8, ExtractIllegalIInv
  <2>9. CASE ExtractWaits  BY Zenon, <2>9, ExtractWaitsIInv
  <2>10. CASE TakePing  BY Zenon, <2>10, TakePingIInv
  <2>11. CASE TakePong  BY Zenon, <2>11, TakePongIInv
  <2>12. CASE TakeClose  BY Zenon, <2>12, TakeCloseIInv
  <2>13. CASE CloseBreaks  BY Zenon, <2>13, CloseBreaksIInv
  <2>14. CASE TakeData  BY Zenon, <2>14, TakeDataIInv
  <2>15. CASE CallbackReturns  BY Zenon, <2>15, CallbackReturnsIInv
  <2> QED BY Zenon, <1>1, <2>1, <2>2, <2>3, <2>4, <2>5, <2>6, <2>7, <2>8, <2>9, <2>10,
             <2>11, <2>12, <2>13, <2>14, <2>15 DEF Code
<1>2. CASE RxResume
  BY Zenon, <1>2, RxResumeIInv
<1>3. ASSUME NEW len \in OutLens, Send(len) PROVE IInv'
  BY Zenon, <1>3, SendIInv
<1>4. ASSUME NEW f \in InFrames[ws.framing], PeerSends(f) PROVE IInv'
  BY Zenon, <1>4, PeerSendsIInv
<1>5. CASE Arrives
  <2>1. PICK n \in 1..MaxIn * (MaxFrameLen + 3) : Arrive(n)
    BY Zenon, <1>5 DEF Arrives
  <2>2. n \in 1..flight /\ flight \in Nat
    BY Zenon, <2>1 DEF Arrive, IInv, Shape, NetOK
  <2>3. n \in Nat
    BY <2>2
  <2> QED BY Zenon, <2>1, <2>3, ArriveIInv
<1>6. CASE PeerEnds \/ PeerResets
  BY Zenon, <1>6, PeerLeavesIInv
<1>7. CASE Deliver
  BY Zenon, <1>7, DeliverIInv
<1>8. CASE UNCHANGED vars
  <2>1. UNCHANGED <<broken, read_paused, interest, rx_resume_timer, sending,
                    send_q, want_writable, kbuf, inbound, acc, ws, sock, flight,
                    peer, edge, tokens, stack, closed>>
    BY Zenon, <1>8 DEF vars, sending, receiving, network
  <2>2. SendOK' /\ RecvOK' /\ NetOK' /\ Conserved' /\ edge' \subseteq {"R", "W"}
    BY Zenon, <2>1, Untouched DEF IInv, Shape, FlagsOK
  <2> QED BY Zenon, <2>1, <2>2, NetworkIInv
<1> QED BY Zenon, <1>1, <1>2, <1>3, <1>4, <1>5, <1>6, <1>7, <1>8 DEF Next, Network

(* The invariant holds throughout. *)
LEMMA AlwaysIInv == Spec => []IInv
  BY InitIInv, NextIInv, PTL DEF Spec

(* A read that is in progress has room to read to. *)
LEMMA ReadsHaveRoom == IInv => BuffersSuffice
<1> SUFFICES ASSUME IInv PROVE BuffersSuffice
  OBVIOUS
<1>1. TypeOK
  BY Zenon, ShapeIsTyped DEF IInv
<1>2. ASSUME Running("read"), ~broken PROVE Want > 0
  <2>1. acc \in Nat /\ RecvAccCap \in Nat /\ Want \in 1..RecvAccCap - acc
    BY Zenon, <1>2, ReadHasRoom
  <2> QED BY <2>1
<1> QED BY Zenon, <1>1, <1>2 DEF BuffersSuffice

(* At rest no call is in progress, so that what is left to do is watched. *)
LEMMA RestIsWatched == IInv => NoLostWakeup
<1> SUFFICES ASSUME IInv PROVE NoLostWakeup
  OBVIOUS
<1>1. closed = IF broken THEN 1 ELSE 0
  BY Zenon DEF IInv, Told
<1>2. ASSUME Idle, ~broken
      PROVE  /\ send_q # <<>> => /\ want_writable /\ "W" \in interest
                                 /\ (Len(kbuf) < SockCap => "W" \in edge)
             /\ read_paused => rx_resume_timer
             /\ ~read_paused /\ sock > 0 => "R" \in edge
  <2>1. Watches /\ SendAwake /\ ReadAwake /\ \A c : ~In(c, stack)
    BY Zenon, <1>2, NoneInEmpty DEF IInv, Live, Idle
  <2>2. want_writable => "W" \in interest
    BY <2>1 DEF Watches
  <2> QED BY Zenon, <2>1, <2>2 DEF SendAwake, ReadAwake
<1> QED BY Zenon, <1>1, <1>2 DEF NoLostWakeup

(* Whatever the peer sends, however it is cut up, and whatever the owner   *)
(* sends from within the callbacks: no queue, buffer or accumulator of a   *)
(* connection is overrun, conn_handle_readable never meets a full          *)
(* recv_acc, and nothing that is still to be done is left without an event *)
(* or a timer to bring the connection back; its owner hears of its end     *)
(* exactly once.                                                           *)
THEOREM ConnGoesOn == Spec => []NothingIsMissed
<1>1. IInv => NothingIsMissed
  BY Zenon, ReadsHaveRoom, RestIsWatched DEF NothingIsMissed
<1> QED BY <1>1, AlwaysIInv, PTL
=============================================================================
