----------------------------- MODULE Handshake ------------------------------
(***************************************************************************)
(* cloak_client_handshake_t (libcloak-client/src/client_transport.c): on a *)
(* connected descriptor it sends the ClientHello and reads a reply of      *)
(* three records, and not a byte of what the session sends after it.       *)
(*                                                                         *)
(*   hs     the handshake; told counts the calls of on_done                *)
(*   net    the socket: the server's bytes, how many of them arrived and   *)
(*          how many were taken from it, its end, room to send, and        *)
(*          whether it is on epoll's ready list                            *)
(*                                                                         *)
(* A byte is a small number: a header is a type and a length.              *)
(***************************************************************************)
EXTENDS Integers, Sequences, SequencesExt

CONSTANTS HELLO_LEN,            \* length of the ClientHello
          PREFIX,               \* least body of a ServerHello
          MAX_RECORD_BODY,
          SCRATCH               \* the buffer of one recv

VARIABLES hs, net
vars == <<hs, net>>

HEADER_LEN == 2
RECORDS == 3
MAX_REPLY_BYTES == RECORDS * (HEADER_LEN + MAX_RECORD_BODY)
HANDSHAKE == 22      \* the type of a handshake record
SESSION_BYTE == 7    \* the session's first byte

-----------------------------------------------------------------------------
(* release_reactor, fail, complete. *)

Pending(h) == h.status = "pending"

ReleaseReactor(h) ==
    [h EXCEPT !.watched = FALSE, !.interest = "none", !.deadline = FALSE]

Fail(h, why) ==
    IF ~Pending(h) THEN h
    ELSE ReleaseReactor([h EXCEPT !.status = "failed", !.state = "failed",
                                  !.error = why])
Complete(h) ==
    IF ~Pending(h) THEN h
    ELSE ReleaseReactor([h EXCEPT !.status = "done", !.state = "done"])

(* finish, the last thing every callback does. *)
Finish(h) ==
    IF Pending(h) \/ h.notified THEN h
    ELSE [h EXCEPT !.notified = TRUE, !.told = @ + 1]

-----------------------------------------------------------------------------
(* The reply. *)

(* record_complete: the first record carries the session key, or nobody's. *)
RecordComplete(h) ==
    LET n == [h EXCEPT !.record_index = @ + 1]
    IN CASE n.record_index = 1 /\ ~net.authentic -> Fail(n, "auth")
         [] n.record_index = RECORDS -> Complete([n EXCEPT !.key = TRUE])
         [] OTHER -> [n EXCEPT !.header = << >>, !.body_len = 0, !.body_total = 0,
                               !.key = TRUE, !.state = "header"]

(* The header is there: its length is checked before a byte of the body. *)
HeaderComplete(h) ==
    LET total == h.header[HEADER_LEN]
        bad == \/ total > MAX_RECORD_BODY
               \/ h.record_index = 0 /\ (h.header[1] # HANDSHAKE \/ total < PREFIX)
               \/ h.reply_bytes + total > MAX_REPLY_BYTES
        body == [h EXCEPT !.body_total = total, !.body_len = 0, !.state = "body"]
    IN IF bad THEN Fail([h EXCEPT !.body_total = total], "protocol")
       ELSE IF total = 0 THEN RecordComplete(body) ELSE body

(* feed: what comes after the end of the handshake is dropped. *)
FeedByte(h, b) ==
    CASE Pending(h) /\ h.state = "header" ->
           LET n == [h EXCEPT !.header = Append(@, b), !.reply_bytes = @ + 1]
           IN IF Len(n.header) < HEADER_LEN THEN n ELSE HeaderComplete(n)
      [] Pending(h) /\ h.state = "body" ->
           LET n == [h EXCEPT !.body_len = @ + 1, !.reply_bytes = @ + 1]
           IN IF n.body_len < n.body_total THEN n ELSE RecordComplete(n)
      [] OTHER -> h
Feed(h, data) == FoldLeft(FeedByte, h, data)

(* Mutant: a whole buffer is asked for. *)
BytesWantedAll(h) == SCRATCH
(* bytes_wanted: what the record in progress still needs. *)
BytesWanted(h) ==
    CASE h.state = "header" -> HEADER_LEN - Len(h.header)
      [] h.state = "body" -> h.body_total - h.body_len
      [] OTHER -> 0

(* One recv of do_read: as much as is wanted, fits and is there. *)
Least(S) == CHOOSE n \in S : \A m \in S : n <= m
Goes(x) == Pending(x.h) /\ BytesWanted(x.h) > 0
Recv(x) ==
    LET n == Least({BytesWanted(x.h), SCRATCH, net.arrived - x.taken})
    IN IF ~Goes(x) THEN x
       ELSE [h |-> Feed(x.h, SubSeq(net.bytes, x.taken + 1, x.taken + n)),
             taken |-> x.taken + n]

(* do_read: until the socket has no more, nothing is wanted, or the        *)
(* handshake is over.                                                      *)
DoRead(h) ==
    LET x == FoldLeft(LAMBDA y, i : Recv(y), [h |-> h, taken |-> net.taken],
                      [i \in 1 .. Len(net.bytes) |-> i])
    IN CASE Goes(x) /\ net.err -> [x EXCEPT !.h = Fail(@, "io")]
         [] Goes(x) /\ ~net.err /\ net.eof -> [x EXCEPT !.h = Fail(@, "eof")]
         [] OTHER -> x

(* do_write: as much as the kernel takes; then the reply, with an interest *)
(* that may not be granted.                                                *)
DoWrite(h, granted) ==
    LET left == HELLO_LEN - h.hello_sent
        n == [h EXCEPT !.hello_sent = @ + (IF left < net.room THEN left ELSE net.room)]
    IN CASE net.err -> Fail(h, "io")
         [] ~net.err /\ n.hello_sent < HELLO_LEN -> n
         [] OTHER -> LET r == [n EXCEPT !.state = "header"]
                     IN IF granted THEN [r EXCEPT !.interest = "R"] ELSE Fail(r, "io")

-----------------------------------------------------------------------------
(* The callbacks. *)

Fires(h, s) == \/ s.err \/ (h.interest = "R" /\ s.arrived > s.taken)
               \/ (h.interest = "R" /\ s.eof) \/ (h.interest = "W" /\ s.room > 0)

(* cloak_client_handshake_start: both registrations, or none. *)
Start ==
    /\ Pending(hs) /\ hs.state = "hello" /\ ~hs.watched
    /\ \/ /\ hs' = [hs EXCEPT !.watched = TRUE, !.interest = "W", !.deadline = TRUE]
          /\ net' = [net EXCEPT !.listed = Fires(hs', net)]
       \/ /\ hs' = [hs EXCEPT !.status = "failed", !.state = "failed",
                               !.error = "io", !.notified = TRUE]
          /\ UNCHANGED net

(* on_event: a write that completes goes on to read. *)
OnEvent ==
    /\ Pending(hs) /\ hs.watched /\ net.listed
    /\ \E granted \in BOOLEAN :
          LET w == IF hs.state = "hello" THEN DoWrite(hs, granted) ELSE hs
              r == IF Pending(w) /\ w.state # "hello" THEN DoRead(w)
                   ELSE [h |-> w, taken |-> net.taken]
          IN /\ granted \/ hs.state = "hello"
             /\ hs' = Finish(r.h)
             /\ net' = [net EXCEPT !.room = @ - (w.hello_sent - hs.hello_sent),
                                   !.taken = r.taken, !.listed = FALSE]

OnDeadline == /\ hs.deadline /\ UNCHANGED net
              /\ hs' = Finish(Fail([hs EXCEPT !.deadline = FALSE], "timeout"))

(* cloak_client_handshake_destroy, by its owner: no call comes after it. *)
Destroy ==
    /\ ~(hs.status = "failed" /\ hs.notified) /\ UNCHANGED net
    /\ hs' = [ReleaseReactor(hs) EXCEPT
                 !.notified = TRUE,
                 !.status = IF Pending(hs) THEN "failed" ELSE @,
                 !.state = IF Pending(hs) THEN "failed" ELSE @]

-----------------------------------------------------------------------------
(* The server and the network. *)

NetBecomes(s) == /\ Pending(hs) /\ UNCHANGED hs
                 /\ net' = [s EXCEPT !.listed = @ \/ (hs.watched /\ Fires(hs, s))]
Arrives == /\ ~net.eof /\ hs.hello_sent = HELLO_LEN
           /\ \E n \in {1, 4} : /\ net.arrived + n <= Len(net.bytes)
                                /\ NetBecomes([net EXCEPT !.arrived = @ + n])
Ends == ~net.eof /\ hs.hello_sent = HELLO_LEN /\ NetBecomes([net EXCEPT !.eof = TRUE])
Breaks == ~net.err /\ NetBecomes([net EXCEPT !.err = TRUE])
Drains == net.room = 0 /\ NetBecomes([net EXCEPT !.room = 1])

(* A record as the server sends it; the body's bytes look like a header's. *)
Record(type, len) == <<type, len>> \o [i \in 1 .. len |-> 1]
Replies == {Record(t, a) \o Record(23, b) \o Record(23, c) :
               t \in {HANDSHAKE, 23}, a \in 0 .. MAX_RECORD_BODY + 1,
               b \in {0, 1}, c \in {0, MAX_RECORD_BODY, MAX_RECORD_BODY + 1}}

(* cloak_client_handshake_init: the hello is built. *)
Init ==
    /\ hs = [status |-> "pending", state |-> "hello", error |-> "none",
             hello_sent |-> 0, header |-> << >>, body_total |-> 0, body_len |-> 0,
             record_index |-> 0, reply_bytes |-> 0, key |-> FALSE,
             watched |-> FALSE, interest |-> "none", deadline |-> FALSE,
             notified |-> FALSE, told |-> 0]
    /\ \E reply \in Replies, authentic \in BOOLEAN :
          net = [bytes |-> Append(reply, SESSION_BYTE), authentic |-> authentic,
                 arrived |-> 0, taken |-> 0, eof |-> FALSE, err |-> FALSE, room |-> 1,
                 listed |-> FALSE]

Next == \/ Start \/ OnEvent \/ OnDeadline \/ Destroy
        \/ Arrives \/ Ends \/ Breaks \/ Drains

-----------------------------------------------------------------------------
(* Properties. *)

(* Where the n-th record of the reply ends. *)
RecordEnd[n \in 0 .. RECORDS] ==
    IF n = 0 THEN 0
    ELSE LET e == RecordEnd[n - 1] IN e + HEADER_LEN + net.bytes[e + HEADER_LEN]
Sound ==
    /\ net.authentic /\ net.bytes[1] = HANDSHAKE /\ net.bytes[2] >= PREFIX
    /\ \A n \in 1 .. RECORDS :
          RecordEnd[n] - RecordEnd[n - 1] - HEADER_LEN <= MAX_RECORD_BODY

(* A handshake that succeeds took exactly the reply from the socket, so    *)
(* the session finds its first byte, has the key, and sent all of its      *)
(* hello; one that blames the reply is right; and no byte is taken that is *)
(* not used, however the reply is cut up and whatever follows it.          *)
ReplyIsConsumed ==
    /\ hs.status = "done" =>
          /\ Sound /\ hs.key /\ hs.hello_sent = HELLO_LEN
          /\ net.taken = RecordEnd[RECORDS]
    /\ hs.error \in {"auth", "protocol"} => ~Sound
    /\ net.taken = hs.reply_bytes

(* A handshake that is over has nothing registered and told its owner      *)
(* once, or not at all when it never started or was destroyed; one that    *)
(* runs has a deadline, and whatever it waits for is reported.             *)
EndsCleanly ==
    /\ ~Pending(hs) => ~hs.watched /\ ~hs.deadline /\ hs.notified
    /\ hs.told <= 1 /\ (Pending(hs) => hs.told = 0)
    /\ Pending(hs) /\ hs.watched => hs.deadline
    /\ Pending(hs) /\ hs.watched /\ Fires(hs, net) => net.listed
=============================================================================
