------------------------------- MODULE Queues -------------------------------
(***************************************************************************)
(* The two rings that bytes wait in: cloak_bytequeue_t                     *)
(* (libcloak-common/src/bytequeue.c), a queue of bytes, and                *)
(* cloak_msgqueue_t (libcloak-mux/src/msgqueue.c), a queue of messages     *)
(* each behind a length prefix.  Both copy in two pieces where the ring    *)
(* wraps.  Next to the ring stands the queue it should be.                 *)
(*                                                                         *)
(* The bytes written are numbered, modulo Base; a prefix is PREFIX digits  *)
(* to the base Base, most significant first.  What a ring holds outside    *)
(* its contents is whatever was there before.                              *)
(***************************************************************************)
EXTENDS Integers, SequencesExt

CONSTANTS PREFIX,    \* CLOAK_MSGQUEUE_LEN_PREFIX
          Base,      \* values of a byte, at least MaxCap
          MaxCap     \* capacities tried

QueuesAssumption == PREFIX \in Nat \ {0} /\ MaxCap \in Nat /\ Base >= MaxCap

VARIABLES kind,    \* "bytes" or "messages"
          q,       \* the ring: [cap, data, head, len, closed, count, payload]
          held,    \* the queue it should be: bytes, or a sequence of messages
          nextByte,   \* number of the next byte written
          res,     \* what the last call returned
          want     \* what it should have returned

qvars == <<kind, q, held, nextByte, res, want>>

(* The codes of msgqueue.h, told apart from the bytes of a read. *)
ERR_CLOSED == << -3>>
ERR_TOO_LARGE == << -2>>
ERR_FULL == << -1>>
EMPTY == << -1>>
SHORT_BUFFER == << -2>>

(* memcpy(q->data + off, src, Len(src)). *)
Copy(data, off, src) ==
    [i \in DOMAIN data |-> IF i \in off .. off + Len(src) - 1 THEN src[i - off + 1]
                           ELSE data[i]]

(* memcpy(dst, q->data + off, n). *)
Piece(data, off, n) == [i \in 1 .. n |-> data[off + i - 1]]

(* ring_put, and the copy of cloak_bytequeue_write. *)
RingPut(data, cap, off, src) ==
    LET first == cap - off
    IN IF first >= Len(src) THEN Copy(data, off, src)
       ELSE Copy(Copy(data, off, SubSeq(src, 1, first)), 0,
                 SubSeq(src, first + 1, Len(src)))

(* ring_peek, and the copy of cloak_bytequeue_read and _peek. *)
RingPeek(r, off, n) ==
    LET first == r.cap - off
    IN IF first >= n THEN Piece(r.data, off, n)
       ELSE Piece(r.data, off, first) \o Piece(r.data, 0, n - first)

(* The length prefix of a message of n bytes, and what a prefix says. *)
Digits(n) == [i \in 1 .. PREFIX |-> (n \div Base ^ (PREFIX - i)) % Base]
Number(d) == FoldLeft(LAMBDA n, x : n * Base + x, 0, d)

(* The next n bytes of the source. *)
Fresh(n) == [i \in 1 .. n |-> (nextByte + i - 1) % Base]

Sizes == 0 .. MaxCap + 1

(* cloak_bytequeue_init and cloak_msgqueue_init; a message queue that has  *)
(* no room behind a prefix is refused.                                     *)
QInit ==
    \E cap \in 1 .. MaxCap :
       /\ kind \in {"bytes", "messages"}
       /\ kind = "messages" => cap > PREFIX
       /\ q = [cap |-> cap, data |-> [i \in 0 .. cap - 1 |-> 0], head |-> 0,
               len |-> 0, closed |-> FALSE, count |-> 0, payload |-> 0]
       /\ held = << >> /\ nextByte = 0
       /\ res = << >> /\ want = << >>

(* cloak_bytequeue_write: all of it or nothing. *)
ByteWrite(n) ==
    LET fits == n > 0 /\ ~q.closed /\ n <= q.cap - q.len
        tail == (q.head + q.len) % q.cap
    IN /\ kind = "bytes"
       /\ q' = IF fits THEN [q EXCEPT !.data = RingPut(q.data, q.cap, tail, Fresh(n)),
                                      !.len = @ + n]
               ELSE q
       /\ res' = <<IF fits THEN n ELSE 0>>
       /\ IF ~q.closed /\ Len(held) + n <= q.cap
          THEN held' = held \o Fresh(n) /\ want' = <<n>> /\ nextByte' = (nextByte + n) % Base
          ELSE want' = <<0>> /\ UNCHANGED <<held, nextByte>>
       /\ UNCHANGED kind

(* cloak_bytequeue_read, after a cloak_bytequeue_peek of the same length:  *)
(* the peek returns the same bytes and moves nothing.                      *)
ByteRead(n) ==
    LET m == Min({n, q.len})
    IN /\ kind = "bytes"
       /\ q' = [q EXCEPT !.head = (@ + m) % q.cap, !.len = @ - m]
       /\ res' = RingPeek(q, q.head, m)
       /\ want' = SubSeq(held, 1, Min({n, Len(held)}))
       /\ held' = SubSeq(held, Min({n, Len(held)}) + 1, Len(held))
       /\ UNCHANGED <<kind, nextByte>>

(* cloak_msgqueue_write. *)
MessageWrite(n) ==
    LET tail == (q.head + q.len) % q.cap
        code == IF q.closed THEN ERR_CLOSED
                ELSE IF n > q.cap - PREFIX THEN ERR_TOO_LARGE
                ELSE IF n + PREFIX > q.cap - q.len THEN ERR_FULL
                ELSE << >>
        prefixed == RingPut(q.data, q.cap, tail, Digits(n))
    IN /\ kind = "messages"
       /\ q' = IF code # << >> THEN q
               ELSE [q EXCEPT !.data = RingPut(prefixed, q.cap, (tail + PREFIX) % q.cap, Fresh(n)),
                              !.len = @ + PREFIX + n,
                              !.payload = @ + n, !.count = @ + 1]
       /\ res' = code
       /\ LET room == q.cap - FoldLeft(LAMBDA s, m : s + PREFIX + Len(m), 0, held)
          IN want' = IF q.closed THEN ERR_CLOSED
                     ELSE IF n + PREFIX <= room THEN << >>
                     ELSE IF n + PREFIX <= q.cap THEN ERR_FULL ELSE ERR_TOO_LARGE
       /\ IF want' = << >>
          THEN held' = Append(held, Fresh(n)) /\ nextByte' = (nextByte + n) % Base
          ELSE UNCHANGED <<held, nextByte>>
       /\ UNCHANGED kind

(* cloak_msgqueue_peek_len. *)
PeekLen == Number(RingPeek(q, q.head, PREFIX))

(* cloak_msgqueue_read into a buffer of n bytes: one too short leaves the  *)
(* message where it is.                                                    *)
MessageRead(n) ==
    LET empty == q.count = 0
        short == ~empty /\ n < PeekLen
    IN /\ kind = "messages"
       /\ IF empty \/ short
          THEN q' = q /\ res' = IF empty THEN EMPTY ELSE SHORT_BUFFER
          ELSE /\ res' = RingPeek(q, (q.head + PREFIX) % q.cap, PeekLen)
               /\ q' = [q EXCEPT !.head = (@ + PREFIX + PeekLen) % q.cap,
                                 !.len = @ - PREFIX - PeekLen,
                                 !.payload = @ - PeekLen, !.count = @ - 1]
       /\ IF held = << >> THEN want' = EMPTY /\ UNCHANGED held
          ELSE IF n < Len(Head(held)) THEN want' = SHORT_BUFFER /\ UNCHANGED held
          ELSE want' = Head(held) /\ held' = Tail(held)
       /\ UNCHANGED <<kind, nextByte>>

(* cloak_bytequeue_close and cloak_msgqueue_close: what is held stays. *)
CloseQueue ==
    /\ q' = [q EXCEPT !.closed = TRUE]
    /\ res' = << >> /\ want' = << >>
    /\ UNCHANGED <<kind, held, nextByte>>

QNext ==
    \/ \E n \in Sizes : ByteWrite(n) \/ ByteRead(n) \/ MessageWrite(n) \/ MessageRead(n)
    \/ CloseQueue

(* cloak_bytequeue_is_eof and cloak_msgqueue_is_eof. *)
IsEof == q.closed /\ (IF kind = "bytes" THEN q.len = 0 ELSE q.count = 0)

(***************************************************************************)
(* Each ring is the queue it stands for: every call returned what the      *)
(* queue would have returned (so a read gives the oldest bytes or the      *)
(* oldest message, whole and across the wrap), and the counters that room  *)
(* and end of stream are judged by agree with what is held.                *)
(***************************************************************************)
QueuesAreFifo ==
    /\ res = want
    /\ q.len = (IF kind = "bytes" THEN Len(held)
                ELSE FoldLeft(LAMBDA s, m : s + PREFIX + Len(m), 0, held))
    /\ kind = "messages" =>
         /\ q.count = Len(held)
         /\ q.payload = FoldLeft(LAMBDA s, m : s + Len(m), 0, held)
    /\ IsEof <=> (q.closed /\ held = << >>)
=============================================================================
