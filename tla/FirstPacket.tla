----------------------------- MODULE FirstPacket -----------------------------
(***************************************************************************)
(* cloak_firstpacket_t (libcloak-server/src/firstpacket.c) and the read    *)
(* loop of the dispatcher that feeds it: which bytes of a new connection   *)
(* are its first packet.  One TLS record or one HTTP header block is taken *)
(* from the socket and nothing after it, since what follows belongs to the *)
(* session, or to the web server the connection is redirected to.          *)
(*                                                                         *)
(* The length of a record is in the last two of HEADER_LEN header bytes.   *)
(***************************************************************************)
EXTENDS Integers, SequencesExt

CONSTANTS HEADER_LEN,    \* TLS_RECORD_HEADER_LEN
          MAX,           \* CLOAK_FIRSTPACKET_MAX
          Inputs         \* what a peer may send, sequences of bytes

VARIABLES fp,        \* the parser
          input,     \* all that this peer sends
          arrived    \* how much of it the kernel has received

fvars == <<fp, input, arrived>>

TLS == 22
GET == 71
CR == 13
LF == 10

(* cloak_firstpacket_init. *)
NewPacket == [transport |-> "unknown", status |-> "need_more", buf |-> << >>,
              record_total |-> 0, crlf_state |-> 0]

(* cloak_firstpacket_want. *)
Want(f) ==
    IF f.status # "need_more" THEN 0
    ELSE IF f.transport # "tls" THEN 1
    ELSE IF Len(f.buf) < HEADER_LEN THEN HEADER_LEN - Len(f.buf)
    ELSE f.record_total - Len(f.buf)

(* fail: every error is one the connection is redirected on. *)
FailPacket(f) == [f EXCEPT !.status = "error"]

(* push_byte. *)
PushByte(f, b) == IF Len(f.buf) >= MAX THEN FailPacket(f)
                  ELSE [f EXCEPT !.buf = Append(@, b)]

(* The first byte tells the transport. *)
Classify(f, b) ==
    IF b = TLS THEN [f EXCEPT !.transport = "tls"]
    ELSE IF b = GET THEN [f EXCEPT !.transport = "websocket"]
    ELSE FailPacket(f)

(* One byte of a record: its total is known with the header's last byte. *)
TlsByte(f) ==
    LET body == f.buf[HEADER_LEN - 1] * 256 + f.buf[HEADER_LEN]
        total == HEADER_LEN + body
        g == IF Len(f.buf) # HEADER_LEN THEN f
             ELSE IF body = 0 \/ total > MAX THEN FailPacket(f)
             ELSE [f EXCEPT !.record_total = total]
    IN IF g.status = "need_more" /\ g.record_total # 0 /\ Len(g.buf) = g.record_total
       THEN [g EXCEPT !.status = "done"] ELSE g

(* One byte of a header block, which ends at the first empty line. *)
WebsocketByte(f, b) ==
    IF b = CR THEN [f EXCEPT !.crlf_state = IF @ = 2 THEN 3 ELSE 1]
    ELSE IF b # LF THEN [f EXCEPT !.crlf_state = 0]
    ELSE IF f.crlf_state = 3 THEN [f EXCEPT !.status = "done"]
    ELSE [f EXCEPT !.crlf_state = IF @ = 1 THEN 2 ELSE 0]

(* The body of the loop of cloak_firstpacket_feed. *)
FeedByte(f, b) ==
    LET g == PushByte(f, b)
    IN IF f.status # "need_more" THEN f
       ELSE IF g.status # "need_more" THEN g
       ELSE IF f.transport = "unknown" THEN Classify(g, b)
       ELSE IF f.transport = "tls" THEN TlsByte(g)
       ELSE WebsocketByte(g, b)

(* cloak_firstpacket_feed: what is beyond the wanted length is ignored. *)
Feed(f, bytes) ==
    IF f.status # "need_more" THEN f
    ELSE FoldLeft(FeedByte, f, SubSeq(bytes, 1, Min({Len(bytes), Want(f)})))

FInit == fp = NewPacket /\ input \in Inputs /\ arrived = 0

(* The network delivers up to n more bytes. *)
Arrive ==
    /\ \E n \in arrived + 1 .. Len(input) : arrived' = n
    /\ UNCHANGED <<fp, input>>

(* One turn of the read loop of on_readable: read(fd, buf, want), of       *)
(* which the kernel returns what it has.                                   *)
ReadTurn ==
    LET at == Len(fp.buf)
        n == Min({Want(fp), arrived - at})
    IN /\ n > 0
       /\ fp' = Feed(fp, SubSeq(input, at + 1, at + n))
       /\ UNCHANGED <<input, arrived>>

FNext == Arrive \/ ReadTurn

(* Where the first empty line of a header block ends, 0 if nowhere. *)
BlockEnd(s) ==
    LET ends == {i \in 4 .. Len(s) : SubSeq(s, i - 3, i) = <<CR, LF, CR, LF>>}
    IN IF ends = {} THEN 0 ELSE Min(ends)

(* The length of the first packet of s, 0 if it has none (yet). *)
PacketLen(s) ==
    IF s = << >> THEN 0
    ELSE IF s[1] = GET THEN BlockEnd(s)
    ELSE IF s[1] = TLS /\ Len(s) >= HEADER_LEN
    THEN HEADER_LEN + s[HEADER_LEN - 1] * 256 + s[HEADER_LEN]
    ELSE 0

(* s can be told not to begin with a first packet. *)
Hopeless(s) ==
    /\ s # << >>
    /\ \/ s[1] \notin {TLS, GET}
       \/ s[1] = GET /\ Len(s) > MAX /\ PacketLen(s) \notin 1 .. MAX
       \/ s[1] = TLS /\ Len(s) >= HEADER_LEN /\ PacketLen(s) \notin HEADER_LEN + 1 .. MAX

(***************************************************************************)
(* However the network cuts what the peer sends, the first packet is what  *)
(* it is of the whole input: the parser is done with exactly one record or *)
(* one header block, has taken not a byte beyond it from the socket, gives *)
(* up exactly on inputs that cannot begin with one, and stops only when    *)
(* it is finished or has read all there is.                                *)
(***************************************************************************)
PacketIsExact ==
    LET s == SubSeq(input, 1, arrived)
        taken == Len(fp.buf)
        settled == Want(fp) = 0 \/ taken = arrived
    IN /\ fp.buf = SubSeq(s, 1, taken)
       /\ fp.status = "done" => taken = PacketLen(input) /\ taken <= MAX
       /\ fp.status = "error" => Hopeless(s)
       /\ settled /\ fp.status = "need_more" => /\ taken = arrived /\ ~ Hopeless(s)
                                                /\ PacketLen(s) \in {0} \cup arrived + 1 .. MAX
=============================================================================
