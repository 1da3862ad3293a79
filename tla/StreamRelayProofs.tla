------------------------- MODULE StreamRelayProofs --------------------------
(***************************************************************************)
(* For every pool, buffer, bucket and frame cost: the data of a stream     *)
(* relay never overruns a connection's queue, a relay at rest is right to  *)
(* rest, a finished one is inert, and a normal end drops nothing.          *)
(*                                                                         *)
(* The inductive invariant adds what the loops in progress may rely on:    *)
(* the frames left of a write still fit every connection, a paused relay   *)
(* reads only to learn of an error, and the units that arrived are those   *)
(* sent, held or still to be read.                                         *)
(***************************************************************************)
EXTENDS StreamRelay, WellFoundedInduction, TLAPS

(* What phase, timers and the loops allow together. *)
Phased ==
    /\ phase = "none" => ~done /\ ~finish_timer /\ ~fd_read_paused /\ pc = "idle"
    /\ phase # "none" => DataCost <= SendCap
    /\ pc # "idle" => Live
    /\ finish_timer => phase = "running"
    /\ done => ~rate_timer /\ ~finish_timer /\ ~onlist
    /\ on_done <= (IF done THEN 1 ELSE 0)
    /\ pc # "write" => left = 0

(* The units of either direction. *)
Conserved ==
    /\ fd.out + to_fd + stream.rq <= arrived.stream
    /\ ~done => fd.out + to_fd + stream.rq = arrived.stream
    /\ fd.in <= arrived.fd

(* The end of the stream is seen after its last unit. *)
Flushed ==
    /\ stream_ended => stream.closed /\ stream.rq = 0
    /\ finish_timer /\ ~fd.err => stream.closed /\ fd.out = arrived.stream

(* What is left of a write fits every connection. *)
Fits ==
    /\ overflow # "data"
    /\ pc = "write" => \A c \in Conns : left * DataCost <= SendCap - q[c]

Paused == PauseIsResumed /\ (pc # "idle" /\ fd_read_paused => fd.err)

IInv == TypeOK /\ Phased /\ Conserved /\ Flushed /\ Fits /\ Paused /\ NoLostEdge
-----------------------------------------------------------------------------
(* The constants and the types, one by one. *)

FdType == [in : 0..MaxIn, eof : BOOLEAN, err : BOOLEAN, room : 0..RoomCap,
           out : 0..MaxStream]
StreamType == [rq : 0..MaxStream, closed : BOOLEAN, retired : BOOLEAN]
BucketType == [limited : BOOLEAN, tokens : -BucketCap..BucketCap]
Queues == [Conns -> 0..SendCap]

(* The assumption on the constants, one by one. *)
LEMMA Consts ==
    /\ SendCap \in Nat \ {0} /\ DataCost \in Nat \ {0} /\ CloseCost \in Nat \ {0}
    /\ BufCap \in Nat \ {0} /\ Chunk \in Nat \ {0} /\ BucketCap \in Nat \ {0}
    /\ RoomCap \in Nat \ {0} /\ MaxIn \in Nat /\ MaxStream \in Nat /\ MaxOther \in Nat
    /\ Conns # {} /\ CloseCost <= DataCost
  BY RelayAssumption

(* What the type invariant says of each variable. *)
LEMMA Types ==
    ASSUME TypeOK
    PROVE  /\ fd \in FdType /\ stream \in StreamType /\ bucket \in BucketType /\ q \in Queues
           /\ fd.in \in Nat /\ fd.in <= MaxIn /\ fd.room \in Nat /\ fd.room <= RoomCap
           /\ fd.out \in Nat /\ fd.out <= MaxStream
           /\ fd.eof \in BOOLEAN /\ fd.err \in BOOLEAN
           /\ stream.rq \in Nat /\ stream.rq <= MaxStream
           /\ stream.closed \in BOOLEAN /\ stream.retired \in BOOLEAN
           /\ to_fd \in Nat /\ to_fd <= BufCap /\ on_done \in Nat
           /\ arrived.fd \in Nat /\ arrived.fd <= MaxIn
           /\ arrived.stream \in Nat /\ arrived.stream <= MaxStream
           /\ bucket.limited \in BOOLEAN /\ bucket.tokens \in Int
           /\ left \in Nat /\ left <= Chunk
<1>1. fd \in FdType /\ stream \in StreamType /\ bucket \in BucketType /\ q \in Queues
      /\ to_fd \in 0..BufCap /\ on_done \in Nat /\ left \in 0..Chunk
      /\ arrived \in [fd : 0..MaxIn, stream : 0..MaxStream]
  BY DEF TypeOK, FdType, StreamType, BucketType, Queues
<1>2. /\ fd.in \in 0..MaxIn /\ fd.room \in 0..RoomCap /\ fd.out \in 0..MaxStream
      /\ fd.eof \in BOOLEAN /\ fd.err \in BOOLEAN
  BY <1>1 DEF FdType
<1>3. stream.rq \in 0..MaxStream /\ stream.closed \in BOOLEAN /\ stream.retired \in BOOLEAN
  BY <1>1 DEF StreamType
<1>4. arrived.fd \in 0..MaxIn /\ arrived.stream \in 0..MaxStream
  BY <1>1
<1>5. bucket.limited \in BOOLEAN /\ bucket.tokens \in -BucketCap..BucketCap
  BY <1>1 DEF BucketType
<1> QED
  BY <1>1, <1>2, <1>3, <1>4, <1>5, Consts

-----------------------------------------------------------------------------
(* A nonempty set of numbers has a least one, so the fullest connection    *)
(* exists.                                                                 *)

(* The order of the naturals is well founded. *)
LEMMA LessIsWellFounded ==
    \E R : IsWellFoundedOn(R, Nat) /\ \A x, y \in Nat : <<y, x>> \in R <=> y < x
<1> DEFINE R == {ss \in Nat \X Nat : ss[1] < ss[2]}
<1>1. IsWellFoundedOn(R, Nat)
  BY NatLessThanWellFounded DEF OpToRel
<1>2. \A x, y \in Nat : <<y, x>> \in R <=> y < x
  OBVIOUS
<1> HIDE DEF R
<1> QED
  BY <1>1, <1>2

(* A nonempty set of naturals has a least member. *)
LEMMA LeastNumber ==
    ASSUME NEW T, T \subseteq Nat, T # {}
    PROVE  \E x \in T : \A y \in T : x <= y
<1>1. PICK R : IsWellFoundedOn(R, Nat) /\ \A x, y \in Nat : <<y, x>> \in R <=> y < x
  BY LessIsWellFounded
<1>2. PICK x \in T : \A y \in T : ~(<<y, x>> \in R)
  BY Zenon, <1>1, WFMin
<1>3. \A y \in T : ~(y < x)
  BY Zenon, <1>1, <1>2
<1> QED
  BY <1>3

(* The fullest connection exists, and no other has less room. *)
LEMMA MinFreeFacts ==
    ASSUME NEW qq \in Queues
    PROVE  /\ MinFree(qq) \in Nat
           /\ \A c \in Conns : MinFree(qq) <= SendCap - qq[c]
           /\ \E c \in Conns : MinFree(qq) = SendCap - qq[c]
<1> DEFINE T == {SendCap - qq[c] : c \in Conns}
<1>1. T \subseteq Nat /\ T # {}
  BY Consts DEF Queues
<1>2. \E x \in T : \A y \in T : x <= y
  <2> HIDE DEF T
  <2> QED BY Zenon, <1>1, LeastNumber
<1>3. MinFree(qq) = CHOOSE x \in T : \A y \in T : x <= y
  BY DEF MinFree, Min
<1>4. MinFree(qq) \in T /\ \A y \in T : MinFree(qq) <= y
  <2> HIDE DEF T
  <2> QED BY <1>2, <1>3
<1> QED
  BY <1>1, <1>4

(* Multiplying by a natural keeps the order. *)
LEMMA Monotone ==
    ASSUME NEW r \in Nat, NEW a \in Int, NEW b \in Int, a <= b
    PROVE  r * a <= r * b /\ a * r <= b * r
  OBVIOUS

(* What the budget's division leaves. *)
LEMMA Division ==
    ASSUME NEW a \in Int, NEW b \in Nat \ {0}
    PROVE  /\ a \div b \in Int
           /\ b * (a \div b) <= a
           /\ a < b * (a \div b) + b
  OBVIOUS

(* What the budget is worth: that many frames fit every connection. *)
LEMMA PoolFramesFacts ==
    ASSUME NEW qq \in Queues
    PROVE  /\ PoolFrames(qq) \in Nat
           /\ \A k \in Nat : k <= PoolFrames(qq) =>
                 \A c \in Conns : k * DataCost <= SendCap - qq[c]
           /\ PoolFrames(qq) > 0 =>
                 DataCost <= SendCap /\ \A c \in Conns : DataCost <= SendCap - qq[c]
           /\ PoolFrames(qq) = 0 => \E c \in Conns : SendCap - qq[c] < DataCost
<1> DEFINE m == MinFree(qq)
           f == m \div DataCost
<1>1. m \in Nat /\ DataCost \in Nat \ {0} /\ SendCap \in Nat
      /\ (\A c \in Conns : qq[c] \in Nat /\ m <= SendCap - qq[c])
      /\ \E c \in Conns : m = SendCap - qq[c]
  BY MinFreeFacts, Consts DEF Queues
<1> HIDE DEF m
<1>2. f \in Int /\ DataCost * f <= m /\ m < DataCost * f + DataCost
  <2>1. m \in Int /\ DataCost \in Nat \ {0}
    BY <1>1
  <2> QED BY <2>1, Division
<1>3. PoolFrames(qq) = f
  BY DEF PoolFrames, m
<1> HIDE DEF f
<1>4. f \in Nat
  <2>1. SUFFICES ASSUME f <= -1 PROVE FALSE
    BY <1>2
  <2>2. DataCost * f <= DataCost * (-1)
    BY <1>1, <1>2, <2>1, Monotone
  <2>3. DataCost * (-1) = -DataCost /\ DataCost * f \in Int
    BY <1>1, <1>2
  <2> QED BY <1>1, <1>2, <2>2, <2>3
<1>5. ASSUME NEW k \in Nat, k <= f, NEW c \in Conns
      PROVE  k * DataCost <= SendCap - qq[c]
  <2>1. k * DataCost <= f * DataCost
    BY <1>1, <1>4, <1>5, Monotone
  <2>2. f * DataCost = DataCost * f /\ f * DataCost \in Int /\ k * DataCost \in Int
    BY <1>1, <1>4
  <2> QED BY <1>1, <1>2, <2>1, <2>2
<1>6. ASSUME f > 0 PROVE DataCost <= SendCap /\ \A c \in Conns : DataCost <= SendCap - qq[c]
  <2>1. \A c \in Conns : 1 * DataCost <= SendCap - qq[c]
    BY <1>4, <1>5, <1>6
  <2>2. 1 * DataCost = DataCost
    BY <1>1
  <2> QED BY <1>1, <2>1, <2>2
<1>7. ASSUME f = 0 PROVE \E c \in Conns : SendCap - qq[c] < DataCost
  <2>1. DataCost * f = 0
    BY <1>1, <1>7
  <2> QED BY <1>1, <1>2, <2>1
<1> QED
  BY <1>3, <1>4, <1>5, <1>6, <1>7

-----------------------------------------------------------------------------
(* The pool: what sending a frame does. *)
LEMMA SendFrameFacts ==
    ASSUME NEW qq \in Queues, NEW c \in Conns, NEW cost \in Nat, NEW kind,
           bucket \in BucketType, SendFrame(qq, c, cost, kind)
    PROVE  /\ q' \in Queues /\ bucket' \in BucketType
           /\ pool_broken' = pool_broken \/ pool_broken' = TRUE
           /\ \/ overflow' = overflow
              \/ cost > SendCap - qq[c] /\ overflow' = kind /\ q' = qq
           /\ \A d \in Conns : d # c => q'[d] = qq[d]
           /\ q'[c] \in {0, qq[c], qq[c] + cost}
           /\ cost <= SendCap - qq[c] => overflow' = overflow /\ pool_broken' = pool_broken
<1>1. SendCap \in Nat /\ BucketCap \in Nat /\ qq[c] \in 0..SendCap
  BY Consts DEF Queues
<1>2. CASE /\ cost <= SendCap - qq[c]
           /\ \E queued \in {0, qq[c] + cost} : q' = [qq EXCEPT ![c] = queued]
           /\ Spend
           /\ UNCHANGED <<pool_broken, overflow>>
  <2>1. PICK n \in {0, qq[c] + cost} : q' = [qq EXCEPT ![c] = n]
    BY Zenon, <1>2
  <2>2. n \in 0..SendCap
    BY <1>1, <1>2
  <2>3. q' \in Queues /\ q'[c] = n /\ \A d \in Conns : d # c => q'[d] = qq[d]
    BY <2>1, <2>2 DEF Queues
  <2>4. bucket' \in BucketType
    <3>1. bucket.tokens \in -BucketCap..BucketCap
      BY DEF BucketType
    <3>2. CASE bucket.limited /\ bucket.tokens > -BucketCap
      <4>1. bucket' = [bucket EXCEPT !.tokens = @ - 1]
        BY <1>2, <3>2 DEF Spend
      <4>2. bucket.tokens - 1 \in -BucketCap..BucketCap
        BY <1>1, <3>1, <3>2
      <4> QED BY <4>1, <4>2 DEF BucketType
    <3>3. CASE ~(bucket.limited /\ bucket.tokens > -BucketCap)
      BY <1>2, <3>3 DEF Spend
    <3> QED BY <3>2, <3>3
  <2> QED BY <1>2, <2>1, <2>3, <2>4
<1>3. CASE /\ cost > SendCap - qq[c]
           /\ q' = qq /\ pool_broken' = TRUE /\ overflow' = kind
           /\ UNCHANGED bucket
  <2>1. q'[c] = qq[c] /\ q' \in Queues /\ \A d \in Conns : d # c => q'[d] = qq[d]
    BY <1>3
  <2>2. ~(cost <= SendCap - qq[c])
    BY <1>1, <1>3
  <2> QED BY Zenon, <1>3, <2>1, <2>2
<1> QED
  BY Zenon, <1>2, <1>3 DEF SendFrame

-----------------------------------------------------------------------------
(* The pump: what is sent, kept and left unread. *)
LEMMA PumpFacts ==
    ASSUME TypeOK, NEW s, s.rq \in Nat
    PROVE  /\ Sent(s) \in Nat /\ Kept(s) \in Nat /\ Unread(s) \in Nat
           /\ Sent(s) <= fd.room /\ Kept(s) <= BufCap
           /\ Sent(s) + Kept(s) + Unread(s) = to_fd + s.rq
           /\ stream_ended /\ s.rq = 0 => Unread(s) = 0
<1>1. /\ fd.room \in Nat /\ to_fd \in Nat /\ to_fd <= BufCap /\ BufCap \in Nat
  BY Types, Consts
<1>2. Pending(s) = to_fd + s.rq /\ Pending(s) \in Nat
  BY <1>1 DEF Pending
<1>3. Sent(s) \in Nat /\ Sent(s) <= fd.room /\ Sent(s) <= Pending(s)
  BY <1>1, <1>2 DEF Sent, Smaller
<1>4. Kept(s) \in Nat /\ Kept(s) <= BufCap /\ Kept(s) <= Pending(s) - Sent(s)
      /\ (Pending(s) - Sent(s) <= BufCap => Kept(s) = Pending(s) - Sent(s))
  BY <1>1, <1>2, <1>3 DEF Kept, Smaller
<1>5. Unread(s) = Pending(s) - Sent(s) - Kept(s)
  BY DEF Unread
<1> QED
  BY <1>1, <1>2, <1>3, <1>4, <1>5

(* Re-registering the mask loses no edge. *)
LEMMA SyncFacts ==
    ASSUME NEW listed \in BOOLEAN, SyncInterest(listed)
    PROVE  /\ interest' \subseteq {"R", "W"} /\ onlist' \in BOOLEAN
           /\ "R" \in interest' <=> ~fd_read_paused' /\ ~stream_ended'
           /\ "W" \in interest' <=> to_fd' > 0
           /\ ("R" \in interest' /\ Readable(fd')) \/ ("W" \in interest' /\ Writable(fd'))
                  => onlist'
  BY Zenon DEF SyncInterest, DesiredInterest, Fires

-----------------------------------------------------------------------------
(* The end of a relay. *)

EnvOK == /\ arrived \in [fd : 0..MaxIn, stream : 0..MaxStream]
         /\ violated \in BOOLEAN /\ others \in 0..MaxOther

(* What EndsFlushed says of one step. *)
FlushedEnd ==
    on_done' > on_done =>
          /\ phase = "running"
          /\ ~fd.eof /\ ~fd.err /\ ~pool_broken /\ ~BucketDry
                => stream'.closed /\ fd'.out = arrived'.stream

(* stream_relay_teardown, with or without a report to the owner. *)
LEMMA TeardownKeepsIInv ==
    ASSUME IInv, ~done, NEW s \in StreamType, NEW fire \in BOOLEAN, NEW qq \in Queues,
           Teardown(s, fire, qq), phase' \in {"running", "failed"}, DataCost <= SendCap,
           fd' \in FdType, stream_ended' \in BOOLEAN, EnvOK',
           stream_ended' => s.closed /\ s.rq = 0,
           fd'.out + s.rq <= arrived'.stream, fd'.in <= arrived'.fd
    PROVE  IInv' /\ stream'.closed = s.closed /\ (on_done' > on_done => fire)
<1>1. /\ done' = TRUE /\ finish_timer' = FALSE /\ rate_timer' = FALSE
      /\ interest' = {} /\ onlist' = FALSE /\ to_fd' = 0
      /\ stream' = [s EXCEPT !.retired = TRUE]
      /\ on_done' = on_done + (IF fire THEN 1 ELSE 0)
      /\ pc' = "idle" /\ left' = 0 /\ fd_read_paused' = fd_read_paused
  BY DEF Teardown, CancelTimers
<1>2. stream' \in StreamType /\ stream'.rq = s.rq /\ stream'.closed = s.closed
  BY Zenon, <1>1 DEF StreamType
<1>3. on_done = 0
  BY Types DEF IInv, Phased
<1>4. on_done' \in Nat /\ on_done' <= 1 /\ (on_done' > on_done => fire)
  BY <1>1, <1>3
<1>5. q' \in Queues /\ bucket' \in BucketType /\ pool_broken' \in BOOLEAN
      /\ overflow' \in {overflow, "closing"}
  <2>1. bucket \in BucketType /\ pool_broken \in BOOLEAN
    BY Types DEF IInv, TypeOK
  <2>2. CASE s.retired \/ pool_broken
    BY <1>1, <2>1, <2>2 DEF Teardown
  <2>3. CASE ~(s.retired \/ pool_broken)
    <3>1. PICK c \in Conns : SendFrame(qq, c, CloseCost, "closing")
      BY <2>3 DEF Teardown
    <3>2. CloseCost \in Nat
      BY Consts
    <3> QED BY Zenon, <2>1, <3>1, <3>2, SendFrameFacts
  <2> QED BY <2>2, <2>3
<1>6. TypeOK'
  <2>1. /\ phase' \in {"none", "running", "failed"}
        /\ {fd_read_paused', stream_ended', rate_timer', finish_timer', done', onlist',
            pool_broken', violated'} \subseteq BOOLEAN
    BY Zenon, <1>1, <1>5 DEF IInv, TypeOK, EnvOK
  <2>2. to_fd' \in 0..BufCap /\ left' \in 0..Chunk /\ interest' \subseteq {"R", "W"}
    BY <1>1, Consts
  <2>3. overflow' \in {"none", "data", "closing"}
    BY <1>5 DEF IInv, TypeOK
  <2> QED BY <1>1, <1>2, <1>4, <1>5, <2>1, <2>2, <2>3
          DEF TypeOK, EnvOK, FdType, StreamType, Queues, BucketType
<1>7. Phased'
  BY <1>1, <1>4 DEF Phased, Live, Finishing
<1>8. Conserved'
  <2>1. fd'.out \in Nat /\ s.rq \in Nat
    BY DEF FdType, StreamType
  <2> QED BY <1>1, <1>2, <2>1 DEF Conserved
<1>9. Flushed'
  BY <1>1, <1>2 DEF Flushed
<1>10. Fits'
  BY <1>1, <1>5 DEF IInv, Fits
<1>11. Paused' /\ NoLostEdge'
  BY <1>1 DEF Paused, PauseIsResumed, NoLostEdge, Live, Finishing
<1> QED
  BY <1>2, <1>4, <1>6, <1>7, <1>8, <1>9, <1>10, <1>11 DEF IInv

(* What the pump leaves, when it is over. *)
LEMMA PumpedFacts ==
    ASSUME IInv, NEW s \in StreamType, PumpOut(s), EnvOK',
           fd.out + to_fd + s.rq = arrived'.stream,
           stream_ended => s.closed /\ s.rq = 0
    PROVE  /\ fd' \in FdType /\ stream_ended' \in BOOLEAN
           /\ AfterPump(s) \in StreamType /\ AfterPump(s).closed = s.closed
           /\ AfterPump(s).rq = Unread(s) /\ Unread(s) \in Nat
           /\ Kept(s) \in 0..BufCap
           /\ fd'.out + Kept(s) + Unread(s) = arrived'.stream
           /\ fd'.in = fd.in /\ fd'.eof = fd.eof /\ fd'.err = fd.err
           /\ stream_ended' => s.closed /\ Unread(s) = 0
           /\ PumpFinishes(s) /\ ~fd.err => s.closed /\ fd'.out = arrived'.stream
<1>1. TypeOK /\ s.rq \in Nat /\ s.closed \in BOOLEAN /\ s.retired \in BOOLEAN
  BY DEF IInv, StreamType
<1>2. /\ Sent(s) \in Nat /\ Kept(s) \in Nat /\ Unread(s) \in Nat
      /\ Sent(s) <= fd.room /\ Kept(s) <= BufCap
      /\ Sent(s) + Kept(s) + Unread(s) = to_fd + s.rq
      /\ stream_ended /\ s.rq = 0 => Unread(s) = 0
  BY <1>1, PumpFacts
<1>3. /\ fd \in FdType /\ fd.room \in Nat /\ fd.room <= RoomCap /\ fd.out \in Nat
      /\ to_fd \in Nat /\ RoomCap \in Nat /\ MaxStream \in Nat /\ BufCap \in Nat
      /\ arrived'.stream \in Nat /\ arrived'.stream <= MaxStream
  BY <1>1, Types, Consts DEF EnvOK
<1>4. fd.room - Sent(s) \in 0..RoomCap /\ fd.out + Sent(s) \in 0..MaxStream
  BY <1>1, <1>2, <1>3
<1>5. fd' = [fd EXCEPT !.room = @ - Sent(s), !.out = @ + Sent(s)] /\ stream_ended' = EndSeen(s)
  BY DEF PumpOut
<1>6. /\ fd' \in FdType /\ fd'.out = fd.out + Sent(s)
      /\ fd'.in = fd.in /\ fd'.eof = fd.eof /\ fd'.err = fd.err
  BY Zenon, <1>3, <1>4, <1>5 DEF FdType
<1>7. Unread(s) \in 0..MaxStream /\ Kept(s) \in 0..BufCap
  BY <1>1, <1>2, <1>3
<1>8. /\ AfterPump(s) \in StreamType /\ AfterPump(s).closed = s.closed
      /\ AfterPump(s).rq = Unread(s)
  BY <1>7 DEF AfterPump, StreamType
<1>9. fd'.out + Kept(s) + Unread(s) = arrived'.stream
  BY <1>1, <1>2, <1>3, <1>6
<1>10. EndSeen(s) \in BOOLEAN /\ (EndSeen(s) => s.closed /\ Unread(s) = 0)
  BY <1>1, <1>2 DEF EndSeen, IInv, TypeOK
<1>11. PumpFinishes(s) /\ ~fd.err => s.closed /\ fd'.out = arrived'.stream
  <2> SUFFICES ASSUME PumpFinishes(s), ~fd.err PROVE s.closed /\ fd'.out = arrived'.stream
    OBVIOUS
  <2>1. EndSeen(s) /\ Kept(s) = 0
    BY SMTT(20), Z3T(20) DEF PumpFinishes
  <2> QED BY <1>2, <1>3, <1>6, <1>9, <1>10, <2>1
<1> QED
  BY <1>2, <1>5, <1>6, <1>7, <1>8, <1>9, <1>10, <1>11

(* A last pump and teardown. *)
LEMMA FinishKeepsIInv ==
    ASSUME IInv, Live, NEW s \in StreamType, Finish(s), EnvOK',
           fd.out + to_fd + s.rq = arrived'.stream, fd.in <= arrived'.fd,
           stream_ended => s.closed /\ s.rq = 0
    PROVE  IInv' /\ (PumpFinishes(s) /\ ~fd.err => stream'.closed /\ fd'.out = arrived'.stream)
<1>1. PumpOut(s) /\ Teardown(AfterPump(s), TRUE, q) /\ phase' = phase
  BY Zenon DEF Finish
<1>2. ~done /\ phase = "running" /\ DataCost <= SendCap /\ q \in Queues
  BY Types DEF Live, Finishing, IInv, Phased
<1>3. /\ fd' \in FdType /\ stream_ended' \in BOOLEAN
      /\ AfterPump(s) \in StreamType /\ AfterPump(s).closed = s.closed
      /\ AfterPump(s).rq = Unread(s) /\ Unread(s) \in Nat /\ Kept(s) \in 0..BufCap
      /\ fd'.out + Kept(s) + Unread(s) = arrived'.stream /\ fd'.in = fd.in
      /\ stream_ended' => s.closed /\ Unread(s) = 0
      /\ PumpFinishes(s) /\ ~fd.err => s.closed /\ fd'.out = arrived'.stream
  BY <1>1, PumpedFacts
<1>4. fd'.out + AfterPump(s).rq <= arrived'.stream
  <2>1. fd'.out \in Nat /\ arrived'.stream \in Nat
    BY <1>3 DEF FdType, EnvOK
  <2> QED BY <1>3, <2>1
<1>5. IInv' /\ stream'.closed = AfterPump(s).closed
  BY Zenon, <1>1, <1>2, <1>3, <1>4, TeardownKeepsIInv
<1> QED
  BY <1>3, <1>5

-----------------------------------------------------------------------------
(* The relay goes on after a pump. *)

(* What the mask and the ready list owe each other at rest. *)
EdgesKept ==
    /\ "R" \in interest <=> ~fd_read_paused /\ ~stream_ended
    /\ "W" \in interest <=> to_fd > 0
    /\ ("R" \in interest /\ Readable(fd)) \/ ("W" \in interest /\ Writable(fd)) => onlist

(* The pump moved bytes and the relay goes on. *)
LEMMA PumpedKeepsIInv ==
    ASSUME IInv, ~done, ~finish_timer, left = 0, DataCost <= SendCap,
           NEW s \in StreamType, Pumped(s), EnvOK',
           fd.out + to_fd + s.rq = arrived'.stream, fd.in <= arrived'.fd,
           stream_ended => s.closed /\ s.rq = 0,
           UNCHANGED <<fd_read_paused, rate_timer, finish_timer, done, on_done, pool, left>>,
           phase' = "running", interest' \subseteq {"R", "W"}, onlist' \in BOOLEAN,
           \/ /\ pc' = "idle" /\ EdgesKept'
              /\ fd_read_paused => rate_timer \/ \E c \in Conns : q[c] > 0
           \/ pc' = "read" /\ (fd_read_paused => fd.err)
    PROVE  IInv' /\ on_done' = on_done
<1>1. PumpOut(s) /\ to_fd' = Kept(s) /\ stream' = AfterPump(s)
  BY SMTT(20), Z3T(20) DEF Pumped
<1>2. /\ fd' \in FdType /\ stream_ended' \in BOOLEAN
      /\ stream' \in StreamType /\ stream'.closed = s.closed
      /\ stream'.rq = Unread(s) /\ to_fd' \in 0..BufCap
      /\ fd'.out + to_fd' + stream'.rq = arrived'.stream
      /\ fd'.in = fd.in /\ fd'.err = fd.err
      /\ stream_ended' => stream'.closed /\ stream'.rq = 0
  BY <1>1, PumpedFacts
<1>3. TypeOK'
  <2>1. /\ {fd_read_paused', stream_ended', rate_timer', finish_timer', done', onlist',
            pool_broken', violated'} \subseteq BOOLEAN
    BY <1>2 DEF IInv, TypeOK, EnvOK, pool
  <2>2. pc' \in {"idle", "read", "write"}
    BY SMTT(20), Z3T(20)
  <2>3. q' \in Queues /\ bucket' \in BucketType /\ overflow' \in {"none", "data", "closing"}
        /\ on_done' \in Nat /\ left' \in 0..Chunk
    BY Types DEF IInv, TypeOK, pool
  <2> QED BY <1>2, <2>1, <2>2, <2>3 DEF TypeOK, EnvOK, FdType, StreamType, Queues, BucketType
<1>4. Phased'
  BY DEF IInv, Phased, Live, Finishing
<1>5. Conserved'
  <2>1. arrived'.stream \in Nat
    BY DEF EnvOK
  <2> QED BY <1>2, <2>1 DEF Conserved
<1>6. Flushed'
  BY <1>2 DEF Flushed
<1>7. Fits'
  BY DEF IInv, Fits, pool
<1>8. Paused'
  BY <1>2 DEF Paused, PauseIsResumed, Live, Finishing, pool
<1>9. NoLostEdge'
  BY DEF NoLostEdge, EdgesKept
<1> QED
  BY <1>3, <1>4, <1>5, <1>6, <1>7, <1>8, <1>9 DEF IInv

(* cloak_stream_relay_notify_stream_data. *)
LEMMA NotifyKeepsIInv ==
    ASSUME IInv, pc = "idle", NEW s \in StreamType, NotifyStreamData(s), EnvOK',
           fd.out + to_fd + s.rq <= arrived'.stream,
           ~done => fd.out + to_fd + s.rq = arrived'.stream,
           fd.in <= arrived'.fd, stream_ended => s.closed /\ s.rq = 0,
           finish_timer => fd.err
    PROVE  IInv' /\ FlushedEnd
<1>1. CASE ~Live /\ stream' = s /\ UNCHANGED <<relay, fd, pool, pc, left>>
  <2>1. UNCHANGED <<phase, fd_read_paused, stream_ended, to_fd, rate_timer, finish_timer,
                    done, on_done, interest, onlist, fd, q, pool_broken, overflow, bucket, pc,
                    left>>
    BY SMTT(20), Z3T(20), <1>1 DEF relay, pool
  <2>2. TypeOK'
    BY <1>1, <2>1 DEF IInv, TypeOK, EnvOK, StreamType
  <2>3. Phased'
    BY <2>1 DEF IInv, Phased, Live, Finishing
  <2>4. Conserved' /\ Flushed'
    BY <1>1, <2>1 DEF IInv, Conserved, Flushed
  <2>5. Fits'
    BY <2>1 DEF IInv, Fits
  <2>6. Paused' /\ NoLostEdge'
    BY <1>1, <2>1 DEF IInv, Phased, Paused, PauseIsResumed, NoLostEdge, Live, Finishing
  <2> QED BY <2>1, <2>2, <2>3, <2>4, <2>5, <2>6, Types DEF IInv, FlushedEnd
<1>2. CASE Live /\ PumpFinishes(s) /\ Finish(s)
  <2>1. ~done /\ phase = "running"
    BY <1>2 DEF Live, Finishing
  <2>2. IInv' /\ (PumpFinishes(s) /\ ~fd.err => stream'.closed /\ fd'.out = arrived'.stream)
    BY <1>2, <2>1, FinishKeepsIInv
  <2> QED BY <1>2, <2>1, <2>2 DEF FlushedEnd
<1>3. CASE /\ Live /\ Pumped(s)
           /\ UNCHANGED <<phase, fd_read_paused, rate_timer, finish_timer, done,
                          on_done, pool, pc, left>>
           /\ SyncInterest(onlist)
  <2>1. ~done /\ ~finish_timer /\ phase = "running" /\ left = 0 /\ DataCost <= SendCap
        /\ onlist \in BOOLEAN
    BY <1>3 DEF IInv, Phased, Live, Finishing, TypeOK
  <2>2. interest' \subseteq {"R", "W"} /\ onlist' \in BOOLEAN /\ EdgesKept'
    BY <1>3, <2>1, SyncFacts DEF EdgesKept
  <2>3. fd_read_paused => rate_timer \/ \E c \in Conns : q[c] > 0
    BY <1>3 DEF IInv, Paused, PauseIsResumed
  <2>4. IInv' /\ on_done' = on_done
    BY <1>3, <2>1, <2>2, <2>3, PumpedKeepsIInv
  <2> QED BY <2>4, Types DEF IInv, FlushedEnd
<1> QED
  BY <1>1, <1>2, <1>3 DEF NotifyStreamData

(* A frame, the closing frame or a violation reaches the stream. *)
LEMMA StreamKeepsIInv ==
    ASSUME IInv, StreamData \/ StreamClosing \/ StreamViolation
    PROVE  IInv' /\ FlushedEnd
<1>1. /\ stream \in StreamType /\ stream.rq \in Nat /\ stream.rq <= MaxStream
      /\ fd.out \in Nat /\ to_fd \in Nat /\ arrived.stream \in Nat /\ arrived.stream <= MaxStream
      /\ MaxStream \in Nat
  BY Types, Consts DEF IInv
<1>2. EnvOK /\ fd.in <= arrived.fd
      /\ fd.out + to_fd + stream.rq <= arrived.stream
      /\ (~done => fd.out + to_fd + stream.rq = arrived.stream)
  BY SMTT(20) DEF IInv, TypeOK, EnvOK, Conserved
<1>3. pc = "idle" /\ ~stream.closed
  BY Zenon DEF StreamData, StreamClosing, StreamViolation
<1>4. ~stream_ended /\ (finish_timer => fd.err)
  BY <1>3, Types DEF IInv, Flushed
<1>5. CASE StreamData
  <2> DEFINE s == [stream EXCEPT !.rq = @ + 1]
  <2>1. /\ arrived.stream < MaxStream /\ arrived' = [arrived EXCEPT !.stream = @ + 1]
        /\ NotifyStreamData(s) /\ UNCHANGED <<others, violated>>
    BY <1>5 DEF StreamData
  <2>2. arrived.stream + 1 \in 0..MaxStream /\ stream.rq + 1 \in 0..MaxStream
    BY <1>1, <1>2, <2>1
  <2>3. s \in StreamType /\ s.rq = stream.rq + 1
    BY <1>1, <2>2 DEF StreamType
  <2> HIDE DEF s
  <2>4. EnvOK' /\ arrived'.stream = arrived.stream + 1 /\ arrived'.fd = arrived.fd
    BY <1>2, <2>1, <2>2 DEF EnvOK
  <2>5. fd.out + to_fd + s.rq <= arrived'.stream
        /\ (~done => fd.out + to_fd + s.rq = arrived'.stream)
    BY <1>1, <1>2, <2>3, <2>4
  <2> QED BY <1>2, <1>3, <1>4, <2>1, <2>3, <2>4, <2>5, NotifyKeepsIInv
<1>6. CASE StreamClosing
  <2>1. PICK r \in BOOLEAN : NotifyStreamData([stream EXCEPT !.closed = TRUE, !.retired = r])
    BY Zenon, <1>6 DEF StreamClosing
  <2> DEFINE s == [stream EXCEPT !.closed = TRUE, !.retired = r]
  <2>2. s \in StreamType /\ s.rq = stream.rq
    BY Zenon, <1>1 DEF StreamType
  <2>3. NotifyStreamData(s)
    BY <2>1
  <2> HIDE DEF s
  <2>4. UNCHANGED <<others, arrived, violated>>
    BY Zenon, <1>6 DEF StreamClosing, env
  <2>5. EnvOK'
    BY <1>2, <2>4 DEF EnvOK
  <2> QED BY SMTT(20), <1>2, <1>3, <1>4, <2>2, <2>3, <2>4, <2>5, NotifyKeepsIInv
<1>7. CASE StreamViolation
  <2> DEFINE s == [stream EXCEPT !.retired = TRUE]
  <2>1. s \in StreamType /\ s.rq = stream.rq
    BY Zenon, <1>1 DEF StreamType
  <2>2. NotifyStreamData(s) /\ violated' = TRUE /\ UNCHANGED <<others, arrived>>
    BY <1>7 DEF StreamViolation
  <2> HIDE DEF s
  <2>3. EnvOK'
    BY <1>2, <2>2 DEF EnvOK
  <2> QED BY <1>2, <1>3, <1>4, <2>1, <2>2, <2>3, NotifyKeepsIInv
<1> QED
  BY <1>5, <1>6, <1>7

-----------------------------------------------------------------------------
(* cloak_stream_relay_start. *)
LEMMA StartKeepsIInv ==
    ASSUME IInv, Start
    PROVE  IInv' /\ FlushedEnd
<1>1. /\ phase = "none" /\ pc = "idle" /\ ~PoolBound(q) /\ UNCHANGED <<others, arrived, violated>>
  BY DEF Start, env
<1>2. ~done /\ ~finish_timer /\ ~fd_read_paused /\ left = 0
  BY <1>1 DEF IInv, Phased
<1>3. DataCost <= SendCap /\ q \in Queues /\ stream \in StreamType
  <2>1. q \in Queues /\ stream \in StreamType
    BY Types DEF IInv
  <2>2. PoolFrames(q) \in Nat /\ (PoolFrames(q) > 0 => DataCost <= SendCap)
    BY <2>1, PoolFramesFacts
  <2> QED BY <1>1, <2>1, <2>2 DEF PoolBound
<1>4. /\ EnvOK' /\ fd.out + to_fd + stream.rq = arrived'.stream /\ fd.in <= arrived'.fd
      /\ stream_ended => stream.closed /\ stream.rq = 0
  BY <1>1, <1>2 DEF IInv, TypeOK, EnvOK, Conserved, Flushed
<1>5. CASE StartEnded
  <2>1. PumpFinishes(stream) /\ PumpOut(stream)
    BY ZenonT(30), <1>5 DEF StartEnded
  <2>2. /\ fd' \in FdType /\ stream_ended' \in BOOLEAN
        /\ AfterPump(stream) \in StreamType /\ AfterPump(stream).closed = stream.closed
        /\ AfterPump(stream).rq = Unread(stream) /\ Unread(stream) \in Nat
        /\ Kept(stream) \in 0..BufCap
        /\ fd'.out + Kept(stream) + Unread(stream) = arrived'.stream
        /\ fd'.in = fd.in /\ fd'.err = fd.err
        /\ stream_ended' => stream.closed /\ Unread(stream) = 0
        /\ ~fd.err => stream.closed /\ fd'.out = arrived'.stream
    BY <1>3, <1>4, <2>1, PumpedFacts
  <2>3. CASE /\ finish_timer' = TRUE /\ phase' = "running"
             /\ to_fd' = Kept(stream) /\ stream' = AfterPump(stream)
             /\ interest' = {"R"} /\ onlist' = Fires(fd', {"R"})
             /\ UNCHANGED <<fd_read_paused, rate_timer, done, on_done, pool, pc, left>>
    <3>1. TypeOK'
      <4>1. onlist' \in BOOLEAN
        BY <2>3 DEF Fires
      <4>2. /\ {fd_read_paused', stream_ended', rate_timer', finish_timer', done', onlist',
                pool_broken', violated'} \subseteq BOOLEAN
        BY ZenonT(30), <2>2, <2>3, <4>1, <1>4 DEF IInv, TypeOK, EnvOK, pool
      <4>3. q' \in Queues /\ bucket' \in BucketType /\ overflow' \in {"none", "data", "closing"}
            /\ on_done' \in Nat /\ left' \in 0..Chunk /\ pc' \in {"idle", "read", "write"}
        BY <2>3, Types DEF IInv, TypeOK, pool
      <4> QED BY Zenon, <1>4, <2>2, <2>3, <4>2, <4>3
              DEF TypeOK, EnvOK, FdType, StreamType, Queues, BucketType
    <3>2. Phased'
      BY ZenonT(30), <1>1, <1>2, <1>3, <2>3 DEF IInv, Phased, Live, Finishing
    <3>3. Conserved'
      <4>1. arrived'.stream \in Nat /\ fd'.out \in Nat
        BY SMTT(20), Z3T(20), <1>4, <2>2 DEF EnvOK, FdType
      <4> QED BY <1>4, <2>2, <2>3, <4>1 DEF Conserved
    <3>4. Flushed'
      BY <2>2, <2>3 DEF Flushed
    <3>5. Fits'
      BY <1>1, <2>3 DEF IInv, Fits, pool
    <3>6. Paused' /\ NoLostEdge'
      BY SMTT(20), Z3T(20), <1>1, <2>3 DEF Paused, PauseIsResumed, NoLostEdge, Live, Finishing
    <3>7. on_done \in Nat /\ on_done' = on_done
      BY <2>3, Types DEF IInv
    <3>8. FlushedEnd
      BY <3>7 DEF FlushedEnd
    <3> QED BY <3>1, <3>2, <3>3, <3>4, <3>5, <3>6, <3>8 DEF IInv
  <2>4. CASE phase' = "failed" /\ Teardown(AfterPump(stream), FALSE, q)
    <3>1. fd'.out + AfterPump(stream).rq <= arrived'.stream /\ fd'.in <= arrived'.fd
      <4>1. arrived'.stream \in Nat /\ fd'.out \in Nat
        BY <1>4, <2>2 DEF EnvOK, FdType
      <4> QED BY SMTT(20), <1>4, <2>2, <4>1
    <3>2. IInv' /\ (on_done' > on_done => FALSE)
      BY ZenonT(30), <1>2, <1>3, <1>4, <2>2, <2>4, <3>1, TeardownKeepsIInv
    <3> QED BY SMTT(20), Z3T(20), <3>2 DEF FlushedEnd
  <2> QED BY ZenonT(30), <1>5, <2>3, <2>4 DEF StartEnded
<1>6. CASE /\ Pumped(stream) /\ phase' = "running"
           /\ UNCHANGED <<fd_read_paused, rate_timer, finish_timer, done, on_done, pool, pc, left>>
           /\ interest' = DesiredInterest /\ onlist' = Fires(fd', interest')
  <2>1. interest' \subseteq {"R", "W"} /\ onlist' \in BOOLEAN /\ EdgesKept'
    BY SMTT(20), Z3T(20), <1>6 DEF DesiredInterest, Fires, EdgesKept
  <2>2. IInv' /\ on_done' = on_done
    BY <1>1, <1>2, <1>3, <1>4, <1>6, <2>1, PumpedKeepsIInv
  <2> QED BY <2>2, Types DEF IInv, FlushedEnd
<1> QED
  BY <1>5, <1>6 DEF Start

(* stream_relay_on_event. *)
LEMMA OnEventKeepsIInv ==
    ASSUME IInv, OnEvent
    PROVE  IInv' /\ FlushedEnd
<1>1. pc = "idle" /\ Live /\ UNCHANGED <<others, arrived, violated>>
  BY DEF OnEvent, env
<1>2. ~done /\ ~finish_timer /\ left = 0 /\ phase = "running" /\ DataCost <= SendCap
  BY SMTT(20), Z3T(20), <1>1 DEF IInv, Phased, Live, Finishing
<1>3. /\ EnvOK' /\ fd.out + to_fd + stream.rq = arrived'.stream /\ fd.in <= arrived'.fd
      /\ stream_ended => stream.closed /\ stream.rq = 0
      /\ stream \in StreamType
  BY <1>1, <1>2, Types DEF IInv, TypeOK, EnvOK, Conserved, Flushed
<1>4. /\ fd_read_paused => rate_timer \/ \E c \in Conns : q[c] > 0
      /\ fd_read_paused => "R" \notin interest
  BY <1>1 DEF IInv, Paused, PauseIsResumed, NoLostEdge
<1> DEFINE evR == fd.err \/ ("R" \in interest /\ Readable(fd))
           evW == "W" \in interest /\ Writable(fd)
<1>5. CASE evW /\ PumpFinishes(stream) /\ Finish(stream)
  <2>1. IInv' /\ (~fd.err => stream'.closed /\ fd'.out = arrived'.stream)
    BY <1>1, <1>3, <1>5, FinishKeepsIInv
  <2> QED BY <1>2, <2>1 DEF FlushedEnd
<1>6. CASE /\ evW /\ Pumped(stream)
           /\ UNCHANGED <<phase, fd_read_paused, rate_timer, finish_timer,
                          done, on_done, pool, left>>
           /\ \/ evR /\ EnterRead /\ UNCHANGED interest
              \/ ~evR /\ pc' = "idle" /\ SyncInterest(FALSE)
  <2>1. CASE evR /\ EnterRead /\ UNCHANGED interest
    <3>1. pc' = "read" /\ onlist' \in BOOLEAN /\ interest' \subseteq {"R", "W"}
      BY Zenon, <2>1 DEF EnterRead, IInv, TypeOK
    <3>2. fd_read_paused => fd.err
      BY SMTT(20), Z3T(20), <1>4, <2>1
    <3>3. IInv' /\ on_done' = on_done
      BY <1>2, <1>3, <1>6, <3>1, <3>2, PumpedKeepsIInv
    <3> QED BY <3>3, Types DEF IInv, FlushedEnd
  <2>2. CASE ~evR /\ pc' = "idle" /\ SyncInterest(FALSE)
    <3>1. interest' \subseteq {"R", "W"} /\ onlist' \in BOOLEAN /\ EdgesKept'
      BY Zenon, <2>2, SyncFacts DEF EdgesKept
    <3>2. IInv' /\ on_done' = on_done
      BY ZenonT(30), <1>2, <1>3, <1>4, <1>6, <2>2, <3>1, PumpedKeepsIInv
    <3> QED BY <3>2, Types DEF IInv, FlushedEnd
  <2> QED BY Zenon, <1>6, <2>1, <2>2
<1>7. CASE /\ ~evW /\ EnterRead
           /\ UNCHANGED <<phase, fd_read_paused, stream_ended, to_fd,
                          rate_timer, finish_timer, done, on_done, interest,
                          fd, stream, pool, left>>
  <2>1. evR
    BY <1>7 DEF OnEvent, Fires
  <2>2. pc' = "read" /\ onlist' = FALSE /\ (fd_read_paused => fd.err)
    BY <1>4, <1>7, <2>1 DEF EnterRead
  <2>3. TypeOK'
    BY ZenonT(30), <1>1, <1>7, <2>2 DEF IInv, TypeOK, pool
  <2>4. Phased'
    BY Zenon, <1>2, <1>7, <2>2 DEF IInv, Phased, Live, Finishing
  <2>5. Conserved' /\ Flushed'
    BY <1>1, <1>7 DEF IInv, Conserved, Flushed
  <2>6. Fits' /\ Paused' /\ NoLostEdge'
    BY ZenonT(30), <1>7, <2>2 DEF IInv, Fits, Paused, PauseIsResumed, NoLostEdge, pool
  <2> QED BY SMTT(20), Z3T(20), <1>7, <2>3, <2>4, <2>5, <2>6, Types DEF IInv, FlushedEnd
<1> QED
  BY Zenon, <1>5, <1>6, <1>7 DEF OnEvent

(* An event that finds the finish timer armed. *)
LEMMA OnEventFinishingKeepsIInv ==
    ASSUME IInv, OnEventFinishing
    PROVE  IInv' /\ FlushedEnd
<1>1. /\ finish_timer /\ onlist' = FALSE
      /\ UNCHANGED <<phase, fd_read_paused, stream_ended, to_fd, rate_timer,
                     finish_timer, done, on_done, interest, fd, stream, q, pool_broken,
                     overflow, bucket, others, arrived, violated, pc, left>>
  BY DEF OnEventFinishing, pool, env
<1>2. TypeOK'
  BY ZenonT(30), <1>1 DEF IInv, TypeOK
<1>3. Phased'
  BY <1>1 DEF IInv, Phased, Live, Finishing
<1>4. Conserved' /\ Flushed'
  BY <1>1 DEF IInv, Conserved, Flushed
<1>5. Fits' /\ Paused' /\ NoLostEdge'
  BY <1>1 DEF IInv, Fits, Paused, PauseIsResumed, NoLostEdge, Live, Finishing
<1> QED
  BY <1>1, <1>2, <1>3, <1>4, <1>5, Types DEF IInv, FlushedEnd

-----------------------------------------------------------------------------
(* pump_fd_to_stream. *)

(* The loop runs for a live relay only. *)
LEMMA LoopFacts ==
    ASSUME IInv, pc # "idle"
    PROVE  /\ Live /\ ~done /\ ~finish_timer /\ phase = "running" /\ DataCost <= SendCap
           /\ fd_read_paused => fd.err
           /\ q \in Queues /\ stream \in StreamType /\ EnvOK
           /\ fd.out + to_fd + stream.rq = arrived.stream /\ fd.in <= arrived.fd
           /\ stream_ended => stream.closed /\ stream.rq = 0
<1>1. Live /\ ~done /\ ~finish_timer /\ phase = "running"
  BY DEF IInv, Phased, Live, Finishing
<1>2. DataCost <= SendCap /\ (fd_read_paused => fd.err)
  BY ZenonT(30), <1>1 DEF IInv, Phased, Paused
<1>3. q \in Queues /\ stream \in StreamType /\ EnvOK
  BY Types DEF IInv, TypeOK, EnvOK
<1> QED
  BY <1>1, <1>2, <1>3 DEF IInv, Conserved, Flushed

(* The read loop pauses: a pause by the pool leaves a queue to drain, one  *)
(* by the bucket a timer.                                                  *)
LEMMA ReadPauseKeepsIInv ==
    ASSUME IInv, ReadPause
    PROVE  IInv' /\ FlushedEnd
<1>1. pc = "read" /\ (PoolBound(q) \/ RateBound(q)) /\ UNCHANGED <<others, arrived, violated>>
  BY DEF ReadPause, env
<1>2. /\ Live /\ ~done /\ ~finish_timer /\ phase = "running" /\ DataCost <= SendCap
      /\ q \in Queues /\ stream \in StreamType /\ EnvOK'
      /\ fd.out + to_fd + stream.rq = arrived'.stream /\ fd.in <= arrived'.fd
      /\ stream_ended => stream.closed /\ stream.rq = 0
  BY SMTT(20), Z3T(20), <1>1, LoopFacts DEF EnvOK
<1>3. CASE /\ fd_read_paused' = TRUE /\ pc' = "idle"
           /\ rate_timer' = (rate_timer \/ RateBound(q))
           /\ UNCHANGED <<to_fd, fd, stream_ended>> /\ SyncInterest(onlist)
           /\ UNCHANGED <<phase, finish_timer, done, on_done, stream, pool, left>>
  <2>1. /\ interest' \subseteq {"R", "W"} /\ onlist' \in BOOLEAN
        /\ "R" \in interest' <=> ~fd_read_paused' /\ ~stream_ended'
        /\ "W" \in interest' <=> to_fd' > 0
        /\ ("R" \in interest' /\ Readable(fd')) \/ ("W" \in interest' /\ Writable(fd'))
               => onlist'
    <3>1. onlist \in BOOLEAN
      BY DEF IInv, TypeOK
    <3> QED BY <1>3, <3>1, SyncFacts
  <2>2. rate_timer' \in BOOLEAN /\ (RateBound(q) => rate_timer')
    BY Zenon, <1>3 DEF IInv, TypeOK, RateBound
  <2>3. PoolBound(q) => \E c \in Conns : q[c] > 0
    <3>1. PoolBound(q) => \E c \in Conns : SendCap - q[c] < DataCost
      BY <1>2, PoolFramesFacts DEF PoolBound
    <3>2. \A c \in Conns : q[c] \in Nat
      BY <1>2 DEF Queues
    <3> QED BY <1>2, <3>1, <3>2, Consts
  <2>4. UNCHANGED <<q, pool_broken, overflow, bucket>>
    BY ZenonT(30), <1>3 DEF pool
  <2>5. TypeOK'
    BY SMTT(20), Z3T(20), <1>1, <1>3, <2>1, <2>2, <2>4 DEF IInv, TypeOK
  <2>6. Phased'
    BY <1>2, <1>3, <1>1 DEF IInv, Phased, Live, Finishing
  <2>7. Conserved' /\ Flushed'
    BY ZenonT(30), <1>1, <1>3 DEF IInv, Conserved, Flushed
  <2>8. Fits' /\ Paused' /\ NoLostEdge'
    BY <1>1, <1>3, <2>1, <2>2, <2>3, <2>4 DEF IInv, Fits, Paused, PauseIsResumed, NoLostEdge
  <2> QED BY <1>3, <2>5, <2>6, <2>7, <2>8, Types DEF IInv, FlushedEnd
<1>4. CASE RateBound(q) /\ ArmFails /\ Finish(stream)
  <2>1. IInv'
    BY <1>2, <1>4, FinishKeepsIInv
  <2> QED BY <1>2, <1>4, <2>1 DEF RateBound, FlushedEnd
<1> QED
  BY ZenonT(30), <1>3, <1>4 DEF ReadPause

(* What one read may take fits every connection, whichever frames go where. *)
LEMMA ReadBytesKeepsIInv ==
    ASSUME IInv, ReadBytes
    PROVE  IInv' /\ FlushedEnd
<1> DEFINE n == Smaller(fd.in, Budget(q))
<1>1. /\ pc = "read" /\ ~PoolBound(q) /\ ~RateBound(q) /\ fd.in > 0 /\ ~fd.err
      /\ fd' = [fd EXCEPT !.in = @ - n] /\ left' = n /\ pc' = "write"
      /\ UNCHANGED <<phase, fd_read_paused, stream_ended, to_fd, rate_timer, finish_timer,
                     done, on_done, interest, onlist, stream, q, pool_broken, overflow, bucket,
                     others, arrived, violated>>
  BY DEF ReadBytes, relay, pool, env
<1>2. Live /\ ~fd_read_paused /\ q \in Queues /\ phase = "running"
  BY SMTT(20), Z3T(20), <1>1, LoopFacts
<1>3. /\ fd \in FdType /\ fd.in \in Nat /\ fd.in <= MaxIn /\ Chunk \in Nat
      /\ bucket.limited \in BOOLEAN /\ bucket.tokens \in Int /\ arrived.fd \in Nat /\ MaxIn \in Nat
  BY Types, Consts DEF IInv
<1>4. PoolFrames(q) \in Nat /\ PoolFrames(q) > 0
      /\ (\A k \in Nat : k <= PoolFrames(q) => \A c \in Conns : k * DataCost <= SendCap - q[c])
  BY <1>1, <1>2, PoolFramesFacts DEF PoolBound
<1>5. bucket.limited => bucket.tokens > 0
  BY SMTT(20), Z3T(20), <1>1, <1>3, <1>4 DEF RateBound, BucketDry
<1>6. n \in Nat /\ n <= PoolFrames(q) /\ n <= Chunk /\ n <= fd.in
  BY <1>3, <1>4, <1>5 DEF Budget, Smaller
<1> HIDE DEF n
<1>7. fd.in - n \in 0..MaxIn
  BY <1>3, <1>6
<1>8. /\ fd' \in FdType /\ fd'.in = fd.in - n /\ fd'.out = fd.out /\ fd'.err = fd.err
  BY <1>1, <1>3, <1>7 DEF FdType
<1>9. TypeOK'
  BY <1>1, <1>3, <1>6, <1>8 DEF IInv, TypeOK, FdType
<1>10. Phased'
  BY <1>1, <1>2 DEF IInv, Phased, Live, Finishing
<1>11. Conserved' /\ Flushed'
  BY <1>1, <1>3, <1>6, <1>8 DEF IInv, Conserved, Flushed
<1>12. Fits' /\ Paused' /\ NoLostEdge'
  BY ZenonT(30), <1>1, <1>2, <1>4, <1>6 DEF IInv, Fits, Paused, PauseIsResumed, NoLostEdge
<1> QED
  BY <1>1, <1>9, <1>10, <1>11, <1>12, Types DEF IInv, FlushedEnd

(* One frame fewer is left, and the rest still fits. *)
LEMMA WriteFrameKeepsIInv ==
    ASSUME IInv, WriteFrame
    PROVE  IInv' /\ FlushedEnd
<1>1. /\ pc = "write" /\ left > 0 /\ left' = left - 1
      /\ UNCHANGED <<phase, fd_read_paused, stream_ended, to_fd, rate_timer, finish_timer,
                     done, on_done, interest, onlist, fd, stream, others, arrived, violated, pc>>
  BY DEF WriteFrame, relay, env
<1>2. PICK c \in Conns : SendFrame(q, c, DataCost, "data")
  BY DEF WriteFrame
<1>3. /\ q \in Queues /\ bucket \in BucketType /\ left \in Nat /\ left <= Chunk
      /\ DataCost \in Nat \ {0} /\ SendCap \in Nat
  BY Types, Consts DEF IInv
<1>4. \A d \in Conns : left * DataCost <= SendCap - q[d] /\ q[d] \in Nat
  BY <1>1, <1>3 DEF IInv, Fits, Queues
<1> DEFINE m == (left - 1) * DataCost
<1>5. m \in Nat /\ left * DataCost = m + DataCost
  BY <1>1, <1>3
<1> HIDE DEF m
<1>6. DataCost <= SendCap - q[c]
  BY <1>3, <1>4, <1>5
<1>7. /\ q' \in Queues /\ bucket' \in BucketType
      /\ \A d \in Conns : d # c => q'[d] = q[d]
      /\ q'[c] \in {0, q[c], q[c] + DataCost}
      /\ overflow' = overflow /\ pool_broken' = pool_broken
  BY Zenon, <1>2, <1>3, <1>6, SendFrameFacts
<1>8. \A d \in Conns : m <= SendCap - q'[d]
  BY <1>3, <1>4, <1>5, <1>7
<1>9. left' * DataCost = m
  BY ZenonT(30), <1>1 DEF m
<1>10. TypeOK'
  <2>1. left' \in 0..Chunk
    BY SMTT(20), Z3T(20), <1>1, <1>3, Consts
  <2> QED BY <1>1, <1>7, <2>1 DEF IInv, TypeOK, Queues, BucketType
<1>11. Phased' /\ Conserved' /\ Flushed'
  BY <1>1 DEF IInv, Phased, Conserved, Flushed, Live, Finishing
<1>12. Fits'
  BY Zenon, <1>7, <1>8, <1>9 DEF IInv, Fits
<1>13. Paused' /\ NoLostEdge'
  BY ZenonT(30), <1>1 DEF IInv, Paused, PauseIsResumed, NoLostEdge
<1> QED
  BY <1>1, <1>10, <1>11, <1>12, <1>13, Types DEF IInv, FlushedEnd

(* The write is done. *)
LEMMA WriteEndKeepsIInv ==
    ASSUME IInv, WriteEnd
    PROVE  IInv' /\ FlushedEnd
<1>1. /\ pc = "write" /\ left = 0 /\ pc' = "read"
      /\ UNCHANGED <<phase, fd_read_paused, stream_ended, to_fd, rate_timer, finish_timer,
                     done, on_done, interest, onlist, fd, stream, q, pool_broken, overflow,
                     bucket, others, arrived, violated, left>>
  BY DEF WriteEnd, relay, pool, env
<1>2. TypeOK'
  BY ZenonT(30), <1>1 DEF IInv, TypeOK
<1>3. Phased' /\ Conserved' /\ Flushed'
  BY SMTT(20), Z3T(20), <1>1 DEF IInv, Phased, Conserved, Flushed, Live, Finishing
<1>4. Fits' /\ Paused' /\ NoLostEdge'
  BY SMTT(20), Z3T(20), <1>1 DEF IInv, Fits, Paused, PauseIsResumed, NoLostEdge
<1> QED
  BY <1>1, <1>2, <1>3, <1>4, Types DEF IInv, FlushedEnd

(* The socket has nothing to read. *)
LEMMA ReadEndKeepsIInv ==
    ASSUME IInv, ReadEnd
    PROVE  IInv' /\ FlushedEnd
<1>1. /\ pc = "read" /\ ~Readable(fd) /\ pc' = "idle" /\ SyncInterest(onlist)
      /\ UNCHANGED <<phase, fd_read_paused, rate_timer, finish_timer, done, on_done, to_fd,
                     stream_ended, fd, stream, q, pool_broken, overflow, bucket, others,
                     arrived, violated, left>>
  BY SMTT(20), Z3T(20) DEF ReadEnd, pool, env
<1>2. ~fd_read_paused
  BY <1>1, LoopFacts DEF Readable
<1>3. /\ interest' \subseteq {"R", "W"} /\ onlist' \in BOOLEAN
      /\ "R" \in interest' <=> ~fd_read_paused' /\ ~stream_ended'
      /\ "W" \in interest' <=> to_fd' > 0
      /\ ("R" \in interest' /\ Readable(fd')) \/ ("W" \in interest' /\ Writable(fd'))
             => onlist'
  <2>1. onlist \in BOOLEAN
    BY DEF IInv, TypeOK
  <2> QED BY ZenonT(30), <1>1, <2>1, SyncFacts
<1>4. TypeOK'
  BY SMTT(20), Z3T(20), <1>1, <1>3 DEF IInv, TypeOK
<1>5. Phased' /\ Conserved' /\ Flushed'
  BY SMTT(20), Z3T(20), <1>1 DEF IInv, Phased, Conserved, Flushed, Live, Finishing
<1>6. Fits' /\ Paused' /\ NoLostEdge'
  BY <1>1, <1>2, <1>3 DEF IInv, Fits, Paused, PauseIsResumed, NoLostEdge
<1> QED
  BY <1>1, <1>4, <1>5, <1>6, Types DEF IInv, FlushedEnd

(* The socket ended or failed, or the pool broke. *)
LEMMA ReadFailKeepsIInv ==
    ASSUME IInv, ReadFail
    PROVE  IInv' /\ FlushedEnd
<1>1. /\ pc # "idle" /\ (fd.err \/ fd.eof \/ pool_broken)
      /\ Finish(stream) /\ UNCHANGED <<others, arrived, violated>>
  BY DEF ReadFail, env
<1>2. /\ Live /\ phase = "running" /\ stream \in StreamType /\ EnvOK'
      /\ fd.out + to_fd + stream.rq = arrived'.stream /\ fd.in <= arrived'.fd
      /\ stream_ended => stream.closed /\ stream.rq = 0
  BY <1>1, LoopFacts DEF EnvOK
<1>3. IInv'
  BY Zenon, <1>1, <1>2, FinishKeepsIInv
<1> QED
  BY <1>1, <1>2, <1>3 DEF FlushedEnd

-----------------------------------------------------------------------------
(* The timers, and the owner's stop. *)

(* Teardown of a running relay without a last pump. *)
LEMMA PlainTeardown ==
    ASSUME IInv, ~done, phase = "running", NEW fire \in BOOLEAN, NEW qq \in Queues,
           Teardown(stream, fire, qq), UNCHANGED <<phase, fd, stream_ended, others, arrived, violated>>
    PROVE  IInv' /\ stream'.closed = stream.closed /\ (on_done' > on_done => fire)
<1>1. stream \in StreamType /\ fd \in FdType /\ EnvOK' /\ stream_ended' \in BOOLEAN
  BY Types DEF IInv, TypeOK, EnvOK
<1>2. DataCost <= SendCap
  BY SMTT(20), Z3T(20) DEF IInv, Phased
<1>3. /\ fd'.out + stream.rq <= arrived'.stream /\ fd'.in <= arrived'.fd
      /\ stream_ended' => stream.closed /\ stream.rq = 0
  BY SMTT(20), Z3T(20), Types DEF IInv, Conserved, Flushed
<1> QED
  BY ZenonT(30), <1>1, <1>2, <1>3, TeardownKeepsIInv

(* stream_relay_on_rate_timer. *)
LEMMA OnRateTimerKeepsIInv ==
    ASSUME IInv, OnRateTimer
    PROVE  IInv' /\ FlushedEnd
<1>1. /\ pc = "idle" /\ rate_timer
      /\ UNCHANGED <<phase, finish_timer, others, arrived, violated>>
  BY DEF OnRateTimer, env
<1>2. q \in Queues /\ left = 0 /\ (Live => ~done /\ phase = "running")
  BY ZenonT(30), <1>1, Types DEF IInv, Phased, Live, Finishing
<1>3. CASE /\ ~Live \/ ~fd_read_paused \/ PoolBound(q)
           /\ rate_timer' = FALSE
           /\ UNCHANGED <<stream_ended, to_fd, fd_read_paused, done, on_done, interest, onlist,
                          fd, stream, pool, pc, left>>
  <2>1. UNCHANGED <<q, pool_broken, overflow, bucket>>
    BY <1>3 DEF pool
  <2>2. Live /\ fd_read_paused => \E c \in Conns : q[c] > 0
    <3>1. PoolBound(q) => \E c \in Conns : SendCap - q[c] < DataCost
      BY <1>2, PoolFramesFacts DEF PoolBound
    <3>2. \A c \in Conns : q[c] \in Nat
      BY <1>2 DEF Queues
    <3>3. Live => DataCost <= SendCap
      BY DEF IInv, Phased, Live
    <3> QED BY <1>3, <3>1, <3>2, <3>3, Consts
  <2>3. TypeOK'
    BY ZenonT(30), <1>1, <1>3, <2>1 DEF IInv, TypeOK
  <2>4. Phased' /\ Conserved' /\ Flushed'
    BY Zenon, <1>1, <1>3 DEF IInv, Phased, Conserved, Flushed, Live, Finishing
  <2>5. Fits' /\ Paused' /\ NoLostEdge'
    BY Zenon, <1>1, <1>3, <2>1, <2>2 DEF IInv, Fits, Paused, PauseIsResumed, NoLostEdge, Live, Finishing
  <2> QED BY <1>3, <2>3, <2>4, <2>5, Types DEF IInv, FlushedEnd
<1>4. CASE /\ Live /\ fd_read_paused /\ RateBound(q)
           /\ UNCHANGED <<relay, fd, stream, pool, pc, left>>
  <2>1. UNCHANGED <<phase, fd_read_paused, stream_ended, to_fd, rate_timer, finish_timer,
                    done, on_done, interest, onlist, fd, stream, q, pool_broken, overflow,
                    bucket, pc, left>>
    BY Zenon, <1>4 DEF relay, pool
  <2>2. TypeOK' /\ Phased' /\ Conserved' /\ Flushed'
    <3>1. TypeOK'
      BY ZenonT(30), <1>1, <2>1 DEF IInv, TypeOK
    <3>2. Phased' /\ Conserved' /\ Flushed'
      BY SMTT(20), Z3T(20), <1>1, <2>1 DEF IInv, Phased, Conserved, Flushed, Live, Finishing
    <3> QED BY Zenon, <3>1, <3>2
  <2>3. Fits' /\ Paused' /\ NoLostEdge'
    BY <1>1, <2>1 DEF IInv, Fits, Paused, PauseIsResumed, NoLostEdge, Live, Finishing
  <2> QED BY <2>1, <2>2, <2>3, Types DEF IInv, FlushedEnd
<1>5. CASE /\ Live /\ RateBound(q)
           /\ UNCHANGED <<fd, stream_ended>> /\ Teardown(stream, TRUE, q)
  <2>1. IInv'
    BY ZenonT(30), <1>1, <1>2, <1>5, PlainTeardown
  <2> QED BY <1>2, <1>5, <2>1 DEF RateBound, FlushedEnd
<1>6. CASE /\ Live /\ fd_read_paused /\ ~PoolBound(q) /\ ~RateBound(q)
           /\ rate_timer' = FALSE /\ fd_read_paused' = FALSE /\ pc' = "read"
           /\ UNCHANGED <<to_fd, fd, stream_ended>> /\ SyncInterest(onlist)
           /\ UNCHANGED <<done, on_done, stream, pool, left>>
  <2>1. UNCHANGED <<q, pool_broken, overflow, bucket>>
    BY <1>6 DEF pool
  <2>2. interest' \subseteq {"R", "W"} /\ onlist' \in BOOLEAN
    <3>1. onlist \in BOOLEAN
      BY DEF IInv, TypeOK
    <3> QED BY <1>6, <3>1, SyncFacts
  <2>3. TypeOK'
    BY ZenonT(30), <1>1, <1>6, <2>1, <2>2 DEF IInv, TypeOK
  <2>4. Phased' /\ Conserved' /\ Flushed'
    BY Zenon, <1>1, <1>2, <1>6 DEF IInv, Phased, Conserved, Flushed, Live, Finishing
  <2>5. Fits' /\ Paused' /\ NoLostEdge'
    BY SMTT(20), Z3T(20), <1>6, <2>1 DEF IInv, Fits, Paused, PauseIsResumed, NoLostEdge
  <2> QED BY <1>6, <2>3, <2>4, <2>5, Types DEF IInv, FlushedEnd
<1> QED
  BY ZenonT(30), <1>3, <1>4, <1>5, <1>6 DEF OnRateTimer

(* stream_relay_on_finish_timer. *)
LEMMA OnFinishTimerKeepsIInv ==
    ASSUME IInv, OnFinishTimer
    PROVE  IInv' /\ FlushedEnd
<1>1. /\ finish_timer /\ Teardown(stream, TRUE, q)
      /\ UNCHANGED <<phase, fd, stream_ended, others, arrived, violated>>
  BY ZenonT(30) DEF OnFinishTimer, env
<1>2. ~done /\ phase = "running" /\ q \in Queues
      /\ (~fd.err => stream.closed /\ fd.out = arrived.stream)
  BY <1>1, Types DEF IInv, Phased, Flushed
<1>3. IInv' /\ stream'.closed = stream.closed
  BY Zenon, <1>1, <1>2, PlainTeardown
<1> QED
  BY <1>1, <1>2, <1>3 DEF FlushedEnd

(* cloak_stream_relay_stop. *)
LEMMA StopKeepsIInv ==
    ASSUME IInv, Stop
    PROVE  IInv' /\ FlushedEnd
<1>1. /\ phase = "running" /\ ~done /\ Teardown(stream, FALSE, q) /\ q \in Queues
      /\ UNCHANGED <<phase, fd, stream_ended, others, arrived, violated>>
  BY Zenon, Types DEF IInv, Stop, env
<1>2. IInv' /\ (on_done' > on_done => FALSE)
  BY ZenonT(30), <1>1, PlainTeardown
<1> QED
  BY <1>2 DEF FlushedEnd

-----------------------------------------------------------------------------
(* The socket's peer, the pool and the clock. *)

(* A change of the socket puts it on the ready list. *)
LEMMA FdBecomesKeepsIInv ==
    ASSUME IInv, NEW f \in FdType, FdBecomes(f), EnvOK', f.out = fd.out,
           f.in <= arrived'.fd, arrived'.stream = arrived.stream, fd.err => f.err
    PROVE  IInv' /\ FlushedEnd
<1>1. /\ pc = "idle" /\ ~done /\ fd' = f
      /\ onlist' = (onlist \/ (phase = "running" /\ Fires(f, interest)))
      /\ UNCHANGED <<phase, fd_read_paused, stream_ended, to_fd, rate_timer, finish_timer,
                     done, on_done, interest, stream, q, pool_broken, overflow, bucket,
                     others, violated, pc, left>>
  BY ZenonT(30) DEF FdBecomes, pool
<1>2. TypeOK'
  <2>1. onlist' \in BOOLEAN
    BY Zenon, <1>1 DEF IInv, TypeOK
  <2> QED BY SMTT(20), <1>1, <2>1 DEF IInv, TypeOK, EnvOK, FdType
<1>3. Phased'
  BY Zenon, <1>1 DEF IInv, Phased, Live, Finishing
<1>4. Conserved' /\ Flushed'
  BY Zenon, <1>1 DEF IInv, Conserved, Flushed
<1>5. Fits' /\ Paused'
  <2>1. Fits'
    BY ZenonT(30), <1>1 DEF IInv, Fits
  <2>2. Paused'
    BY ZenonT(30), <1>1 DEF IInv, Paused, PauseIsResumed, Live, Finishing
  <2> QED BY Zenon, <2>1, <2>2
<1>6. NoLostEdge'
  BY Zenon, <1>1 DEF IInv, NoLostEdge, Live, Finishing, Fires
<1> QED
  BY SMTT(20), <1>1, <1>2, <1>3, <1>4, <1>5, <1>6, Types DEF IInv, FlushedEnd

(* The socket's peer writes, ends, resets or reads. *)
LEMMA SocketKeepsIInv ==
    ASSUME IInv, FdData \/ FdEof \/ FdReset \/ FdPeerReads
    PROVE  IInv' /\ FlushedEnd
<1>1. /\ fd \in FdType /\ EnvOK /\ fd.in \in Nat /\ fd.in <= arrived.fd /\ arrived.fd \in Nat
      /\ MaxIn \in Nat /\ RoomCap \in Nat
  BY Types, Consts DEF IInv, TypeOK, EnvOK, Conserved
<1>2. CASE FdData
  <2> DEFINE f == [fd EXCEPT !.in = @ + 1]
  <2>1. arrived.fd < MaxIn /\ arrived' = [arrived EXCEPT !.fd = @ + 1] /\ FdBecomes(f)
    BY <1>2 DEF FdData
  <2>2. fd.in + 1 \in 0..MaxIn /\ arrived.fd + 1 \in 0..MaxIn
    BY <1>1, <2>1
  <2>3. f \in FdType /\ f.out = fd.out /\ f.in = fd.in + 1 /\ f.err = fd.err
    BY <1>1, <2>2 DEF FdType
  <2>4. EnvOK' /\ arrived'.stream = arrived.stream /\ arrived'.fd = arrived.fd + 1
    BY SMTT(20), Z3T(20), <1>1, <2>1, <2>2 DEF EnvOK, FdBecomes
  <2> HIDE DEF f
  <2>5. f.in <= arrived'.fd
    BY <1>1, <2>3, <2>4
  <2> QED BY <2>1, <2>3, <2>4, <2>5, FdBecomesKeepsIInv
<1>3. CASE FdEof
  <2> DEFINE f == [fd EXCEPT !.eof = TRUE]
  <2>1. FdBecomes(f) /\ arrived' = arrived
    BY <1>3 DEF FdEof
  <2>2. f \in FdType /\ f.out = fd.out /\ f.in = fd.in /\ f.err = fd.err
    BY Zenon, <1>1 DEF FdType
  <2>3. EnvOK'
    BY <1>1, <2>1 DEF EnvOK, FdBecomes
  <2> HIDE DEF f
  <2> QED BY <1>1, <2>1, <2>2, <2>3, FdBecomesKeepsIInv
<1>4. CASE FdReset
  <2> DEFINE f == [fd EXCEPT !.err = TRUE]
  <2>1. FdBecomes(f) /\ arrived' = arrived
    BY <1>4 DEF FdReset
  <2>2. f \in FdType /\ f.out = fd.out /\ f.in = fd.in /\ f.err
    BY Zenon, <1>1 DEF FdType
  <2>3. EnvOK'
    BY <1>1, <2>1 DEF EnvOK, FdBecomes
  <2> HIDE DEF f
  <2> QED BY <1>1, <2>1, <2>2, <2>3, FdBecomesKeepsIInv
<1>5. CASE FdPeerReads
  <2> DEFINE f == [fd EXCEPT !.room = RoomCap]
  <2>1. FdBecomes(f) /\ arrived' = arrived
    BY <1>5 DEF FdPeerReads
  <2>2. f \in FdType /\ f.out = fd.out /\ f.in = fd.in /\ f.err = fd.err
    BY <1>1 DEF FdType
  <2>3. EnvOK'
    BY ZenonT(30), <1>1, <2>1 DEF EnvOK, FdBecomes
  <2> HIDE DEF f
  <2> QED BY <1>1, <2>1, <2>2, <2>3, FdBecomesKeepsIInv
<1> QED
  BY ZenonT(30), <1>2, <1>3, <1>4, <1>5

(* The pool changes between two handlers: a connection stays as full or    *)
(* the pause is over.                                                      *)
LEMMA PoolStep ==
    ASSUME IInv, pc = "idle", q' \in Queues, bucket' \in BucketType, pool_broken' \in BOOLEAN,
           others' \in 0..MaxOther, Paused',
           UNCHANGED <<relay, fd, stream, overflow, arrived, violated, pc, left>>
    PROVE  IInv' /\ FlushedEnd
<1>1. UNCHANGED <<phase, fd_read_paused, stream_ended, to_fd, rate_timer, finish_timer,
                  done, on_done, interest, onlist, fd, stream, overflow, arrived, violated,
                  pc, left>>
  BY Zenon DEF relay
<1>2. TypeOK'
  BY ZenonT(30), <1>1 DEF IInv, TypeOK, Queues, BucketType
<1>3. Phased' /\ Conserved' /\ Flushed'
  BY <1>1 DEF IInv, Phased, Conserved, Flushed, Live, Finishing
<1>4. Fits' /\ NoLostEdge'
  BY Zenon, <1>1 DEF IInv, Fits, NoLostEdge, Live, Finishing
<1> QED
  BY <1>1, <1>2, <1>3, <1>4, Types DEF IInv, FlushedEnd

(* A frame sent is billed within the bucket's range. *)
LEMMA SpendFacts ==
    ASSUME bucket \in BucketType, Spend
    PROVE  bucket' \in BucketType
<1>1. BucketCap \in Nat
  BY ZenonT(30), Consts
<1> QED
  BY <1>1 DEF BucketType, Spend

(* Another stream sends, the pool breaks, time passes. *)
LEMMA EnvironmentKeepsIInv ==
    ASSUME IInv, OtherSend \/ PoolBreaks \/ Tick
    PROVE  IInv' /\ FlushedEnd
<1>1. /\ q \in Queues /\ bucket \in BucketType /\ pool_broken \in BOOLEAN
      /\ others \in 0..MaxOther /\ bucket.tokens \in -BucketCap..BucketCap
      /\ SendCap \in Nat /\ DataCost \in Nat \ {0} /\ BucketCap \in Nat /\ MaxOther \in Nat
  BY SMTT(20), Z3T(20), Types, Consts DEF IInv, TypeOK
<1>2. CASE OtherSend
  <2>1. PICK c \in Conns : q' = [q EXCEPT ![c] = @ + DataCost]
    BY Zenon, <1>2 DEF OtherSend
  <2>2. /\ pc = "idle" /\ ~PoolBound(q) /\ others < MaxOther /\ others' = others + 1 /\ Spend
        /\ UNCHANGED <<relay, fd, stream, pool_broken, overflow, arrived, violated, pc, left>>
    BY <1>2 DEF OtherSend
  <2>3. DataCost <= SendCap - q[c] /\ \A d \in Conns : q[d] \in 0..SendCap
    <3>1. PoolFrames(q) > 0
      BY <1>1, <2>2, PoolFramesFacts DEF PoolBound
    <3> QED BY SMTT(20), Z3T(20), <1>1, <3>1, PoolFramesFacts DEF Queues
  <2>4. q[c] + DataCost \in 0..SendCap /\ q' \in Queues
    BY <1>1, <2>1, <2>3 DEF Queues
  <2>5. \A d \in Conns : q[d] > 0 => q'[d] > 0
    BY SMTT(20), Z3T(20), <1>1, <2>1, <2>3 DEF Queues
  <2>6. Paused'
    BY <2>2, <2>5 DEF IInv, Paused, PauseIsResumed, Live, Finishing, relay
  <2>7. bucket' \in BucketType /\ others' \in 0..MaxOther
    BY SMTT(20), Z3T(20), <1>1, <2>2, SpendFacts
  <2> QED BY SMTT(20), <1>1, <2>2, <2>4, <2>6, <2>7, PoolStep
<1>3. CASE PoolBreaks
  <2>1. /\ pc = "idle" /\ pool_broken' = TRUE
        /\ UNCHANGED <<relay, fd, stream, q, overflow, bucket, others, arrived, violated, pc, left>>
    BY SMTT(20), Z3T(20), <1>3 DEF PoolBreaks, env
  <2>2. Paused'
    BY <2>1 DEF IInv, Paused, PauseIsResumed, Live, Finishing, relay
  <2> QED BY SMTT(20), Z3T(20), <1>1, <2>1, <2>2, PoolStep
<1>4. CASE Tick
  <2>1. /\ pc = "idle" /\ bucket.tokens < BucketCap
        /\ bucket' = [bucket EXCEPT !.tokens = @ + 1]
        /\ UNCHANGED <<relay, fd, stream, q, pool_broken, overflow, others, arrived, violated, pc,
                       left>>
    BY <1>4 DEF Tick, env
  <2>2. bucket.tokens + 1 \in -BucketCap..BucketCap
    BY <1>1, <2>1
  <2>3. bucket' \in BucketType
    BY <1>1, <2>1, <2>2 DEF BucketType
  <2>4. Paused'
    BY <2>1 DEF IInv, Paused, PauseIsResumed, Live, Finishing, relay
  <2> QED BY <1>1, <2>1, <2>3, <2>4, PoolStep
<1> QED
  BY <1>2, <1>3, <1>4

(* on_drained and cloak_stream_relay_notify_writable. *)
LEMMA NotifyWritableKeepsIInv ==
    ASSUME IInv, pc = "idle", NEW qq \in Queues, NotifyWritable(qq),
           UNCHANGED <<others, arrived, violated>>
    PROVE  IInv' /\ FlushedEnd
<1>1. /\ bucket \in BucketType /\ pool_broken \in BOOLEAN /\ others \in 0..MaxOther
      /\ onlist \in BOOLEAN /\ left = 0
  BY Types DEF IInv, TypeOK, Phased
<1>2. Live => ~done /\ ~finish_timer /\ phase = "running" /\ DataCost <= SendCap
  BY SMTT(20), Z3T(20) DEF IInv, Phased, Live, Finishing
<1>3. CASE (~Live \/ ~fd_read_paused \/ PoolBound(qq)) /\ DrainOnly(qq)
  <2>1. /\ q' = qq
        /\ UNCHANGED <<relay, fd, stream, pool_broken, overflow, bucket, pc, left>>
    BY <1>3 DEF DrainOnly
  <2>2. Live /\ fd_read_paused => \E d \in Conns : qq[d] > 0
    <3>1. PoolBound(qq) => \E d \in Conns : SendCap - qq[d] < DataCost
      BY PoolFramesFacts DEF PoolBound
    <3>2. \A d \in Conns : qq[d] \in Nat
      BY SMTT(20), Z3T(20) DEF Queues
    <3> QED BY <1>2, <1>3, <3>1, <3>2, Consts
  <2>3. Paused'
    BY <2>1, <2>2 DEF IInv, Paused, PauseIsResumed, Live, Finishing, relay
  <2> QED BY <1>1, <2>1, <2>3, PoolStep
<1>4. CASE Live /\ RateBound(qq) /\ HandOver(qq)
  <2>1. CASE /\ rate_timer' = TRUE /\ q' = qq
             /\ UNCHANGED <<phase, fd_read_paused, stream_ended, to_fd, finish_timer, done, on_done,
                            interest, onlist, fd, stream, pool_broken, overflow, bucket, pc, left>>
    <3>1. TypeOK'
      BY ZenonT(30), <2>1 DEF IInv, TypeOK, Queues
    <3>2. Phased' /\ Conserved' /\ Flushed'
      BY Zenon, <1>2, <1>4, <2>1 DEF IInv, Phased, Conserved, Flushed, Live, Finishing
    <3>3. Fits' /\ Paused' /\ NoLostEdge'
      BY Zenon, <2>1 DEF IInv, Fits, Paused, PauseIsResumed, NoLostEdge, Live, Finishing
    <3> QED BY <2>1, <3>1, <3>2, <3>3, Types DEF IInv, FlushedEnd
  <2>2. CASE Teardown(stream, TRUE, qq) /\ UNCHANGED <<phase, fd, stream_ended>>
    <3>1. IInv'
      BY ZenonT(30), <1>2, <1>4, <2>2, PlainTeardown
    <3> QED BY SMTT(20), <1>2, <1>4, <3>1 DEF RateBound, FlushedEnd
  <2> QED BY ZenonT(30), <1>4, <2>1, <2>2 DEF HandOver
<1>5. CASE /\ Live /\ fd_read_paused /\ ~PoolBound(qq) /\ ~RateBound(qq)
           /\ fd_read_paused' = FALSE /\ q' = qq
           /\ UNCHANGED <<to_fd, fd, stream_ended>> /\ SyncInterest(onlist)
           /\ UNCHANGED <<phase, rate_timer, finish_timer, done, on_done, stream, pool_broken,
                          overflow, bucket, pc, left>>
  <2>1. /\ interest' \subseteq {"R", "W"} /\ onlist' \in BOOLEAN
        /\ "R" \in interest' <=> ~fd_read_paused' /\ ~stream_ended'
        /\ "W" \in interest' <=> to_fd' > 0
        /\ ("R" \in interest' /\ Readable(fd')) \/ ("W" \in interest' /\ Writable(fd'))
               => onlist'
    BY SMTT(20), <1>1, <1>5, SyncFacts
  <2>2. TypeOK'
    BY ZenonT(30), <1>5, <2>1 DEF IInv, TypeOK, Queues
  <2>3. Phased' /\ Conserved' /\ Flushed'
    BY <1>2, <1>5 DEF IInv, Phased, Conserved, Flushed, Live, Finishing
  <2>4. Fits' /\ Paused' /\ NoLostEdge'
    BY <1>5, <2>1 DEF IInv, Fits, Paused, PauseIsResumed, NoLostEdge
  <2> QED BY SMTT(20), Z3T(20), <1>5, <2>2, <2>3, <2>4, Types DEF IInv, FlushedEnd
<1> QED
  BY ZenonT(30), <1>3, <1>4, <1>5 DEF NotifyWritable

(* A connection drains, in part or whole. *)
LEMMA PoolDrainsKeepsIInv ==
    ASSUME IInv, NEW c \in Conns, PoolDrains(c)
    PROVE  IInv' /\ FlushedEnd
<1>1. pc = "idle" /\ q[c] > 0 /\ UNCHANGED <<others, arrived, violated>>
  BY ZenonT(30) DEF PoolDrains, env
<1>2. /\ q \in Queues /\ q[c] \in 0..SendCap /\ SendCap \in Nat /\ DataCost \in Nat \ {0}
      /\ bucket \in BucketType /\ pool_broken \in BOOLEAN /\ others \in 0..MaxOther
  BY Types, Consts DEF IInv, TypeOK, Queues
<1>3. CASE NotifyWritable([q EXCEPT ![c] = 0])
  <2>1. [q EXCEPT ![c] = 0] \in Queues
    BY <1>2 DEF Queues
  <2> QED BY <1>1, <1>3, <2>1, NotifyWritableKeepsIInv
<1>4. CASE q[c] > DataCost /\ DrainOnly([q EXCEPT ![c] = @ - DataCost])
  <2>1. /\ q' = [q EXCEPT ![c] = @ - DataCost]
        /\ UNCHANGED <<relay, fd, stream, pool_broken, overflow, bucket, pc, left>>
    BY <1>4 DEF DrainOnly
  <2>2. q[c] - DataCost \in 0..SendCap /\ q[c] - DataCost > 0
    BY <1>2, <1>4
  <2>3. q' \in Queues /\ q'[c] > 0
    BY Zenon, <1>2, <2>1, <2>2 DEF Queues
  <2>4. Paused'
    BY <1>1, <2>1, <2>3 DEF Paused, PauseIsResumed
  <2> QED BY Zenon, <1>1, <1>2, <2>1, <2>3, <2>4, PoolStep
<1> QED
  BY <1>3, <1>4 DEF PoolDrains

-----------------------------------------------------------------------------
(* Before start nothing has moved. *)
LEMMA InitIInv == Init => IInv
<1> SUFFICES ASSUME Init PROVE IInv
  BY ZenonT(30)
<1>1. /\ phase = "none" /\ ~fd_read_paused /\ ~stream_ended /\ to_fd = 0 /\ ~rate_timer
      /\ ~finish_timer /\ ~done /\ on_done = 0 /\ interest = {} /\ ~onlist
      /\ fd = [in |-> 0, eof |-> FALSE, err |-> FALSE, room |-> RoomCap, out |-> 0]
      /\ stream = [rq |-> 0, closed |-> FALSE, retired |-> FALSE]
      /\ q = [c \in Conns |-> 0] /\ ~pool_broken /\ overflow = "none"
      /\ bucket \in [limited : BOOLEAN, tokens : {BucketCap}] /\ others = 0
      /\ arrived = [fd |-> 0, stream |-> 0] /\ ~violated /\ pc = "idle" /\ left = 0
  BY SMTT(20) DEF Init
<1>2. {fd_read_paused, stream_ended, rate_timer, finish_timer, done, onlist, pool_broken,
       violated} \subseteq BOOLEAN
  BY ZenonT(30) DEF Init
<1>3. bucket \in [limited : BOOLEAN, tokens : -BucketCap..BucketCap]
  BY SMTT(20), <1>1, Consts
<1>4. TypeOK
  <2>1. /\ fd \in FdType /\ stream \in StreamType /\ q \in Queues
        /\ arrived \in [fd : 0..MaxIn, stream : 0..MaxStream]
    BY SMTT(20), Z3T(20), <1>1, Consts DEF FdType, StreamType, Queues
  <2>2. /\ to_fd \in 0..BufCap /\ on_done \in Nat /\ others \in 0..MaxOther
        /\ left \in 0..Chunk
    BY SMTT(20), Z3T(20), <1>1, Consts
  <2> QED BY ZenonT(30), <1>1, <1>2, <1>3, <2>1, <2>2 DEF TypeOK, FdType, StreamType, Queues
<1>5. Phased /\ Conserved /\ Flushed /\ Fits
  BY SMTT(20), <1>1 DEF Phased, Conserved, Flushed, Fits, Live, Finishing
<1>6. Paused /\ NoLostEdge
  BY ZenonT(30), <1>1 DEF Paused, PauseIsResumed, NoLostEdge, Live
<1> QED
  BY <1>4, <1>5, <1>6 DEF IInv

(* A step of nobody. *)
LEMMA StutterKeepsIInv ==
    ASSUME IInv, UNCHANGED vars
    PROVE  IInv' /\ FlushedEnd
<1>1. UNCHANGED <<phase, fd_read_paused, stream_ended, to_fd, rate_timer, finish_timer,
                  done, on_done, interest, onlist, fd, stream, q, pool_broken, overflow,
                  bucket, others, arrived, violated, pc, left>>
  BY SMTT(20) DEF vars, relay, pool, env
<1>2. TypeOK'
  BY ZenonT(30), <1>1 DEF IInv, TypeOK
<1>3. Phased' /\ Conserved' /\ Flushed'
  BY Zenon, <1>1 DEF IInv, Phased, Conserved, Flushed, Live, Finishing
<1>4. Fits' /\ Paused' /\ NoLostEdge'
  BY <1>1 DEF IInv, Fits, Paused, PauseIsResumed, NoLostEdge, Live, Finishing
<1> QED
  BY SMTT(20), Z3T(20), <1>1, <1>2, <1>3, <1>4, Types DEF IInv, FlushedEnd

(* Every step keeps the inductive invariant and ends the relay only as     *)
(* EndsFlushed allows.                                                     *)
LEMMA NextKeepsIInv ==
    ASSUME IInv, [Next]_vars
    PROVE  IInv' /\ FlushedEnd
<1>1. CASE Start
  BY <1>1, StartKeepsIInv
<1>2. CASE OnEvent \/ OnEventFinishing
  BY <1>2, OnEventKeepsIInv, OnEventFinishingKeepsIInv
<1>3. CASE Loop
  BY <1>3, ReadPauseKeepsIInv, ReadBytesKeepsIInv, WriteFrameKeepsIInv, WriteEndKeepsIInv,
     ReadEndKeepsIInv, ReadFailKeepsIInv DEF Loop
<1>4. CASE OnRateTimer \/ OnFinishTimer \/ Stop
  BY <1>4, OnRateTimerKeepsIInv, OnFinishTimerKeepsIInv, StopKeepsIInv
<1>5. CASE FdData \/ FdEof \/ FdReset \/ FdPeerReads
  BY <1>5, SocketKeepsIInv
<1>6. CASE StreamData \/ StreamClosing \/ StreamViolation
  BY <1>6, StreamKeepsIInv
<1>7. CASE OtherSend \/ PoolBreaks \/ Tick
  BY <1>7, EnvironmentKeepsIInv
<1>8. CASE \E c \in Conns : PoolDrains(c)
  BY <1>8, PoolDrainsKeepsIInv
<1>9. CASE UNCHANGED vars
  BY <1>9, StutterKeepsIInv
<1> QED
  BY <1>1, <1>2, <1>3, <1>4, <1>5, <1>6, <1>7, <1>8, <1>9 DEF Next

-----------------------------------------------------------------------------
(* Whatever the pool, the bucket and the costs: the frames of one read fit *)
(* the connection each of them goes to (stream_relay_fd_read_budget); a    *)
(* running relay never waits for what cannot happen, its pause having a    *)
(* timer or a queue that will drain and its edges being on epoll's list    *)
(* (sync_interest, arm_rate_timer); a finished one is inert and its owner  *)
(* was told at most once (stream_relay_teardown).                          *)
THEOREM RelayIsSafe == Spec => [](DataFitsPool /\ NoStall /\ FinishedIsInert)
<1>1. Init => IInv
  BY InitIInv
<1>2. IInv /\ [Next]_vars => IInv'
  BY NextKeepsIInv
<1>3. IInv => DataFitsPool /\ NoStall /\ FinishedIsInert
  BY DEF IInv, Fits, Paused, Phased, DataFitsPool, NoStall, FinishedIsInert
<1> QED
  BY <1>1, <1>2, <1>3, PTL DEF Spec

(* A relay that ends with socket, pool and bucket in order ends because    *)
(* the stream was closed and everything it carried was written to the      *)
(* socket, and cloak_stream_relay_start never reports completion itself.   *)
THEOREM NormalEndsDropNothing == Spec => EndsFlushed
<1>1. Init => IInv
  BY InitIInv
<1>2. IInv /\ [Next]_vars => IInv' /\ FlushedEnd
  BY NextKeepsIInv
<1> QED
  BY <1>1, <1>2, PTL DEF Spec, EndsFlushed, FlushedEnd
=============================================================================
