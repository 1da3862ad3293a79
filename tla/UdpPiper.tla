------------------------------ MODULE UdpPiper ------------------------------
(***************************************************************************)
(* cloak_udp_piper_t (libcloak-client/src/udp_piper.c): one local datagram *)
(* socket, and for each local address that speaks on it a peer with an     *)
(* unordered stream of the session and a deadline.                         *)
(*                                                                         *)
(*   pp     the piper; reading says that piper_pump_read is in its loop,   *)
(*          taken counts the datagrams of this turn.  That loop can run    *)
(*          inside a release: retiring is the peer whose stream is being   *)
(*          released further up, todo what the caller does next, at the    *)
(*          peer the walk of piper_on_broken saved as its next             *)
(*   peer   the peers, by address; deadline counts down, idle counts up    *)
(*   sock   datagrams to read, a pending error, room to send, and whether  *)
(*          the socket is on epoll's ready list                            *)
(*   sess   the session: none, open or closing, whether its pool broke,    *)
(*          and the frames queued on its fullest connection                *)
(*   strm   the streams that exist, by address, which is used again        *)
(*   seen   what arrived so far at the socket and on the streams, whether  *)
(*          a datagram overran a queue or went to another application, and *)
(*          whether a peer was used after it was freed                     *)
(***************************************************************************)
EXTENDS Integers, FiniteSets, Sequences, Functions, SequencesExt

CONSTANTS Addrs, Anon,          \* local senders, and one without an address
          StreamIds,            \* addresses of streams
          Nil,
          PeerCaps,             \* values for cfg.max_peers
          READ_BUDGET, MAX_REFUSED, PEER_TIMEOUT,
          SendCap, RoomCap,     \* a connection's queue, the kernel's buffer
          WriteFailsNested,     \* a write fails in a loop inside a release
          MaxIn, MaxDown        \* bounds: what arrives

VARIABLES pp, peer, sock, sess, strm, seen
vars == <<pp, peer, sock, sess, strm, seen>>

State == [pp |-> pp, peer |-> peer, sock |-> sock, sess |-> sess,
          strm |-> strm, seen |-> seen]
Becomes(x) == \E y \in {x} : /\ pp' = y.pp /\ peer' = y.peer /\ sock' = y.sock
                             /\ sess' = y.sess /\ strm' = y.strm /\ seen' = y.seen
With(v, Op(_)) == CHOOSE r \in {Op(w) : w \in {v}} : TRUE

-----------------------------------------------------------------------------
(* The socket and epoll. *)

Readable(x) == x.sock.in # << >> \/ x.sock.err
Reported(x) == x.sock.err \/ (x.pp.interest /\ x.sock.in # << >>)

(* sync_interest: nothing to say when interest is empty. *)
SyncInterest(x) ==
    IF ~x.pp.fd \/ (x.pp.paused /\ ~x.pp.interest) THEN x
    ELSE With([x EXCEPT !.pp.interest = ~x.pp.paused],
              LAMBDA y : [y EXCEPT !.sock.listed = Reported(y)])

-----------------------------------------------------------------------------
(* The session. *)

NoSession == [state |-> "none", broken |-> FALSE, q |-> 0]

(* piper_on_writable resumes a paused read; inside the read loop's own     *)
(* write it only clears the flag.                                          *)
OnWritable(x) ==
    IF x.pp.sesh = Nil \/ ~x.pp.paused THEN x
    ELSE With([x EXCEPT !.pp.paused = FALSE], LAMBDA y :
       IF x.pp.reading THEN y
       ELSE With(SyncInterest(y), LAMBDA z : [z EXCEPT !.pp.reading = z.pp.fd]))

(* What becomes of a frame: the kernel takes it, it stays in the queue of  *)
(* a connection, the send empties a queue that was backed up and calls     *)
(* on_writable before it returns, or the pool breaks.  A connection other  *)
(* than the fullest that drains lets the read loop pause again at once.    *)
Fates == IF sess.broken THEN {"goes"}
         ELSE {"goes", "fails"} \cup {f \in {"stays"} : sess.q < SendCap}
                                \cup {f \in {"drains"} : sess.q > 0}
SendFrame(x, fate) ==
    CASE fate = "goes" -> x
      [] fate = "fails" -> [x EXCEPT !.sess.state = "closing", !.sess.broken = TRUE]
      [] fate = "stays" -> [x EXCEPT !.sess.q = @ + 1]
      [] fate = "drains" -> OnWritable([x EXCEPT !.sess.q = 0])

-----------------------------------------------------------------------------
(* The peers. *)

(* The stream and the peer are freed. *)
PeerFree(x, a) ==
    [x EXCEPT !.peer = RestrictDomain(@, LAMBDA b : b # a),
              !.strm = RestrictDomain(@, LAMBDA i : i # x.peer[a].stream)]

(* peer_retire: its timers are cancelled and the stream is released, which *)
(* sends a closing frame unless the stream has ended; the peer is unlinked *)
(* and freed after that.  When the frame lets piper_on_writable read, the  *)
(* peer is still linked meanwhile.  A peer already being retired is        *)
(* retired a second time.                                                  *)
PeerRetire(x, a, fate) ==
    CASE a = x.pp.retiring -> PeerFree([x EXCEPT !.seen.stale = TRUE], a)
      [] a # x.pp.retiring /\ x.strm[x.peer[a].stream].closed -> PeerFree(x, a)
      [] OTHER -> With(SendFrame(x, fate), LAMBDA y :
            IF y.pp.reading /\ ~x.pp.reading
            THEN [y EXCEPT !.pp.retiring = a] ELSE PeerFree(y, a))

PeerTouch(x, a) == [x EXCEPT !.peer[a].idle = 0]

FreeStreams(x) == StreamIds \ DOMAIN x.strm
(* An address is used again as soon as it is free. *)
ANewStream(x) == CHOOSE id \in FreeStreams(x) : TRUE

(* peer_create after its checks: the stream, the buffer, the deadline. *)
PeerCreate(x, a, id) ==
    [x EXCEPT !.peer = (a :> [stream |-> id, out |-> Nil, send |-> FALSE,
                              deadline |-> PEER_TIMEOUT, idle |-> 0]) @@ @,
              !.strm = (id :> [for |-> a, in |-> 0, closed |-> FALSE]) @@ @]

(* peer_create's checks: a session that opens streams, and the maximum. *)
MayCreate(x) ==
    /\ x.pp.sesh # Nil /\ Cardinality(DOMAIN x.peer) < x.pp.max_peers
    /\ x.sess.state = "open" /\ FreeStreams(x) # {}

-----------------------------------------------------------------------------
(* From the stream to the socket. *)

Waiting(x, a) == (IF x.peer[a].out = Nil THEN 0 ELSE 1) + x.strm[x.peer[a].stream].in

(* peer_flush and cloak_stream_read in turn until the socket refuses one:  *)
(* the kernel takes what it has room for, lost of them fail for good and   *)
(* are dropped, and one that the kernel refuses is kept and a timer armed. *)
(* A read or a send is activity, a refusal is not.                         *)
Handed(x, a, lost) ==
    LET total == Waiting(x, a)
        sent == IF total - lost < x.sock.room THEN total - lost ELSE x.sock.room
        left == total - lost - sent
        active == sent > 0 \/ (x.strm[x.peer[a].stream].in > 0
                                  /\ (x.peer[a].out = Nil \/ lost > 0))
    IN [x EXCEPT !.sock.room = @ - sent,
                 !.strm[x.peer[a].stream].in = IF left > 0 THEN left - 1 ELSE 0,
                 !.peer[a] = [@ EXCEPT
                     !.out = IF left > 0 THEN x.strm[x.peer[a].stream].for ELSE Nil,
                     !.idle = IF active THEN 0 ELSE @,
                     !.send = @ /\ left > 0],
                 !.seen.astray = @ \/ (sent > 0 /\ x.strm[x.peer[a].stream].for # a)]

(* peer_drain: without a timer nothing would ever serve the peer again, so *)
(* it is retired; so it is at the stream's end.                            *)
PeerDrain(x, a, lost, armed, fate) ==
    With(Handed(x, a, lost), LAMBDA y :
       CASE y.peer[a].out # Nil /\ ~y.peer[a].send ->
              IF armed THEN [y EXCEPT !.peer[a].send = TRUE]
              ELSE PeerRetire(y, a, fate)
         [] y.peer[a].out = Nil /\ x.strm[x.peer[a].stream].closed ->
              PeerRetire(y, a, fate)
         [] OTHER -> y)

-----------------------------------------------------------------------------
(* piper_pump_read, one turn of its loop after the other. *)

(* Nothing of the piper is on the stack. *)
Idle == ~pp.reading /\ pp.todo = "nothing"
StartReading(x) == IF ~x.pp.fd THEN x
                   ELSE [x EXCEPT !.pp.reading = TRUE]
(* The loop ends, and with it the release it may have run in. *)
EndReading(x) ==
    With(SyncInterest([x EXCEPT !.pp.reading = FALSE, !.pp.taken = 0]), LAMBDA y :
       IF y.pp.retiring \notin DOMAIN y.peer THEN [y EXCEPT !.pp.retiring = Nil]
       ELSE [PeerFree(y, y.pp.retiring) EXCEPT !.pp.retiring = Nil])

(* Mutant: asked for one frame less. *)
PoolFullLate(x) == x.pp.sesh # Nil /\ x.sess.q > SendCap
(* cloak_session_send_min_conn_free against piper_frame_cost. *)
PoolFull(x) == x.pp.sesh # Nil /\ x.sess.q = SendCap

(* The turn's budget is spent: the socket is asked to report again. *)
ReadYields ==
    /\ pp.reading /\ pp.taken >= READ_BUDGET /\ Becomes(EndReading(State))
(* The pool has no room for a frame: reading waits for it. *)
ReadPauses ==
    /\ pp.reading /\ pp.taken < READ_BUDGET /\ PoolFull(State)
    /\ Becomes(EndReading([State EXCEPT !.pp.paused = TRUE]))
(* The socket is empty, or has an error to report. *)
ReadEnds ==
    /\ pp.reading /\ pp.taken < READ_BUDGET /\ ~PoolFull(State)
    /\ sock.err \/ sock.in = << >>
    /\ Becomes(EndReading([State EXCEPT !.sock.err = FALSE]))

(* The frame of a datagram, from a peer that has a stream; a write that    *)
(* fails takes the peer with it.                                           *)
WriteFails(x, a, fate) ==
    x.sess.broken \/ a = x.pp.retiring \/ fate = "fails"
Forward(x, a, fate) ==
    With(IF a = x.pp.retiring THEN x
         ELSE SendFrame([x EXCEPT !.seen.overrun = @ \/ x.sess.q = SendCap], fate),
         LAMBDA y : IF WriteFails(x, a, fate) THEN PeerRetire(y, a, fate)
                    ELSE PeerTouch(y, a))

(* One datagram.  A sender without an address is refused; an empty         *)
(* datagram, or one too long for a frame, only shows that its peer lives;  *)
(* an unknown sender becomes a peer if it may, and loses its peer again    *)
(* when the deadline cannot be armed.                                      *)
ReadOne(x, d, id, armed, fate) ==
    LET y == [x EXCEPT !.sock.in = Tail(@), !.pp.taken = @ + 1]
    IN CASE d.from = Anon -> y
         [] d.from # Anon /\ (d.kind # "data" \/ x.pp.sesh = Nil) ->
              IF d.from \in DOMAIN x.peer THEN PeerTouch(y, d.from) ELSE y
         [] OTHER ->
              IF d.from \in DOMAIN x.peer THEN Forward(y, d.from, fate)
              ELSE IF id = Nil THEN y
              ELSE With(PeerCreate(y, d.from, id), LAMBDA z :
                 IF armed THEN Forward(z, d.from, fate)
                 ELSE PeerRetire(z, d.from, fate))
(* Whether a write that fails inside a release is part of the run. *)
NestedWrite(d, fate) ==
    \/ WriteFailsNested \/ pp.retiring = Nil \/ d.from \notin DOMAIN peer
    \/ d.kind # "data" \/ ~WriteFails(State, d.from, fate)
ReadDatagram ==
    /\ pp.reading /\ pp.taken < READ_BUDGET /\ ~PoolFull(State)
    /\ ~sock.err /\ sock.in # << >>
    /\ \E id \in (IF MayCreate(State) THEN {ANewStream(State)} ELSE {}) \cup {Nil},
          armed \in BOOLEAN, fate \in Fates :
          /\ NestedWrite(Head(sock.in), fate)
          /\ Becomes(ReadOne(State, Head(sock.in), id, armed, fate))
ReadLoop == ReadYields \/ ReadPauses \/ ReadEnds \/ ReadDatagram

(* piper_on_event. *)
OnEvent ==
    /\ Idle /\ pp.fd /\ sock.listed /\ Reported(State)
    /\ Becomes(StartReading([State EXCEPT !.sock.listed = FALSE]))

-----------------------------------------------------------------------------
(* The timers. *)

OnSendTimer(a) ==
    /\ Idle /\ peer[a].send
    /\ \E lost \in 0 .. Waiting(State, a), armed \in BOOLEAN, fate \in Fates :
          Becomes(PeerDrain([State EXCEPT !.peer[a].send = FALSE],
                            a, lost, armed, fate))

(* peer_on_deadline: a peer that was active meanwhile gets the rest. *)
OnDeadline(a) ==
    /\ Idle /\ peer[a].deadline = 0
    /\ \E armed \in BOOLEAN, fate \in Fates :
          IF peer[a].idle < PEER_TIMEOUT /\ armed
          THEN Becomes([State EXCEPT !.peer[a].deadline = PEER_TIMEOUT - peer[a].idle])
          ELSE Becomes(PeerRetire(State, a, fate))

(* Time passes; what is due runs first. *)
Tick ==
    /\ Idle /\ peer # << >> /\ \A a \in DOMAIN peer : peer[a].deadline > 0
    /\ Becomes([State EXCEPT !.peer = [a \in DOMAIN peer |->
          [peer[a] EXCEPT !.deadline = @ - 1, !.idle = @ + 1]]])

-----------------------------------------------------------------------------
(* The session's callbacks. *)

Streams(x) == {x.peer[a].stream : a \in DOMAIN x.peer}

(* piper_on_stream_data. *)
StreamData(id) ==
    /\ Idle /\ sess.state = "open"
    /\ \/ /\ seen.down < MaxDown /\ ~strm[id].closed
          /\ \E a \in DOMAIN peer, armed \in BOOLEAN, fate \in Fates :
             peer[a].stream = id /\
             \E x \in {[State EXCEPT !.strm[id].in = @ + 1, !.seen.down = @ + 1]} :
             \E lost \in 0 .. Waiting(x, a) :
                Becomes(PeerDrain(x, a, lost, armed, fate))
       \/ /\ ~strm[id].closed
          /\ \E a \in DOMAIN peer, armed \in BOOLEAN, fate \in Fates,
                x \in {[State EXCEPT !.strm[id].closed = TRUE]} :
             peer[a].stream = id /\ \E lost \in 0 .. Waiting(x, a) :
                Becomes(PeerDrain(x, a, lost, armed, fate))

(* piper_on_new_stream: every stream the server opens is released, and     *)
(* then too many of them close the session.                                *)
OnNewStream ==
    /\ Idle /\ sess.state = "open" /\ pp.fd
    /\ \E fate \in Fates :
          Becomes(SendFrame([State EXCEPT !.pp.refused = @ + 1,
                                          !.pp.todo = "refuse"], fate))
AfterRefusal ==
    /\ ~pp.reading /\ pp.todo = "refuse"
    /\ \E x \in {[State EXCEPT !.pp.todo = "nothing"]} :
          IF pp.refused < MAX_REFUSED \/ sess.state # "open" THEN Becomes(x)
          ELSE \E fate \in Fates :
                  Becomes(SendFrame([x EXCEPT !.sess.state = "closing"], fate))

(* A connection drains from the event loop. *)
ConnDrains == /\ Idle /\ sess.state # "none" /\ ~sess.broken /\ sess.q > 0
              /\ Becomes(OnWritable([State EXCEPT !.sess.q = 0]))

(* A connection fails, or the peer closes the session. *)
SessionBreaks == /\ Idle /\ sess.state = "open"
                 /\ \E broken \in BOOLEAN :
                       Becomes([State EXCEPT !.sess.state = "closing",
                                             !.sess.broken = broken])

(* piper_on_broken retires the peers one by one, the next one saved first; *)
(* then the stack destroys the session.                                    *)
Some(S) == IF S = {} THEN {Nil} ELSE S
OnBroken ==
    /\ Idle /\ sess.state = "closing"
    /\ \E a \in Some(DOMAIN peer) :
          Becomes([State EXCEPT !.pp.todo = "broken", !.pp.at = a])
BrokenNext ==
    /\ ~pp.reading /\ pp.todo = "broken"
    /\ \/ /\ pp.at = Nil
          /\ Becomes([State EXCEPT !.pp.sesh = Nil, !.pp.todo = "nothing",
                                   !.strm = << >>, !.sess = NoSession])
       \/ /\ pp.at # Nil
          /\ \E next \in Some(DOMAIN peer \ {pp.at}), fate \in Fates :
             \E x \in {[State EXCEPT !.pp.at = next]} :
                IF pp.at \in DOMAIN peer THEN Becomes(PeerRetire(x, pp.at, fate))
                ELSE Becomes([x EXCEPT !.seen.stale = TRUE])

(* Mutant: reading stays paused for a pool that is gone. *)
SetSessionPaused ==
    /\ Idle /\ sess.state = "none" /\ pp.fd
    /\ Becomes([State EXCEPT !.pp.sesh = "session", !.pp.refused = 0,
                            !.sess.state = "open"])
(* A session comes up: cloak_udp_piper_set_session. *)
SetSession ==
    /\ Idle /\ sess.state = "none" /\ pp.fd
    /\ \E x \in {[State EXCEPT !.pp.sesh = "session", !.pp.refused = 0,
                               !.pp.paused = FALSE, !.sess.state = "open"]} :
          IF pp.paused THEN Becomes(SyncInterest(x)) ELSE Becomes(x)

-----------------------------------------------------------------------------
(* cloak_udp_piper_open tries one address after the other, and             *)
(* cloak_udp_piper_adopt reads at once.                                    *)
Open ==
    /\ ~pp.fd /\ ~pp.gone
    /\ \E found \in BOOLEAN :
          IF found THEN Becomes(StartReading([State EXCEPT !.pp.fd = TRUE,
                                                           !.pp.interest = TRUE]))
          ELSE Becomes([State EXCEPT !.pp.gone = TRUE])

(* cloak_udp_piper_destroy: while there is a peer it is retired. *)
Destroy == /\ Idle /\ pp.fd /\ Becomes([State EXCEPT !.pp.todo = "destroy"])
DestroyNext ==
    /\ ~pp.reading /\ pp.todo = "destroy"
    /\ IF peer # << >>
       THEN \E a \in DOMAIN peer, fate \in Fates : Becomes(PeerRetire(State, a, fate))
       ELSE Becomes([State EXCEPT !.pp.fd = FALSE, !.pp.gone = TRUE,
                                  !.pp.interest = FALSE, !.pp.todo = "nothing",
                                  !.sock.listed = FALSE])

(* The local applications. *)
SockBecomes(s) ==
    \E x \in {[State EXCEPT !.sock = s]} :
       Becomes([x EXCEPT !.sock.listed = @ \/ (pp.fd /\ Reported(x))])
Datagrams == [from : Addrs, kind : {"data", "other"}]
                \cup {[from |-> Anon, kind |-> "data"]}
Arrives ==
    /\ Idle /\ pp.fd /\ seen.in < MaxIn
    /\ \E d \in Datagrams, x \in {[State EXCEPT !.seen.in = @ + 1]} :
       \E y \in {[x EXCEPT !.sock.in = Append(@, d)]} :
          Becomes([y EXCEPT !.sock.listed = @ \/ Reported(y)])
SockError == /\ Idle /\ pp.fd /\ ~sock.err /\ SockBecomes([sock EXCEPT !.err = TRUE])
SockDrains == /\ Idle /\ pp.fd /\ sock.room < RoomCap
              /\ SockBecomes([sock EXCEPT !.room = RoomCap])

-----------------------------------------------------------------------------
Init ==
    /\ \E max \in PeerCaps :
          pp = [fd |-> FALSE, gone |-> FALSE, interest |-> FALSE, paused |-> FALSE,
                sesh |-> Nil, refused |-> 0, reading |-> FALSE, taken |-> 0,
                retiring |-> Nil, todo |-> "nothing", at |-> Nil,
                max_peers |-> max]
    /\ peer = << >> /\ strm = << >>
    /\ \E room \in {0, RoomCap} :
          sock = [in |-> << >>, err |-> FALSE, room |-> room, listed |-> FALSE]
    /\ sess = NoSession
    /\ seen = [in |-> 0, down |-> 0, overrun |-> FALSE, astray |-> FALSE, stale |-> FALSE]

Next ==
    \/ Open \/ Destroy \/ OnEvent \/ ReadLoop \/ Tick
    \/ \E a \in DOMAIN peer : OnSendTimer(a) \/ OnDeadline(a)
    \/ \E id \in DOMAIN strm : StreamData(id)
    \/ OnNewStream \/ AfterRefusal \/ ConnDrains \/ SessionBreaks
    \/ OnBroken \/ BrokenNext \/ DestroyNext \/ SetSession
    \/ Arrives \/ SockError \/ SockDrains

Spec == Init /\ [][Next]_vars

-----------------------------------------------------------------------------
(* Properties. *)

(* A stream is released once: no peer is retired again, or used, once its  *)
(* release began further up the stack (peer_retire, piper_on_broken).      *)
ReleasedOnce == ~seen.stale

(* Peers and streams are paired: no stream of the session is left without  *)
(* its peer, no peer without its stream, none has another's, and there are *)
(* no more than the maximum; a closed piper has neither.  No peer is used  *)
(* after it was freed, by the walk that saved it or by a second retirement *)
(* inside the first.                                                       *)
PeersAreSound ==
    /\ ReleasedOnce
    /\ Streams(State) = DOMAIN strm
    /\ Cardinality(DOMAIN peer) = Cardinality(DOMAIN strm)
    /\ Cardinality(DOMAIN peer) <= pp.max_peers
    /\ peer # << >> => pp.fd /\ pp.sesh # Nil /\ sess.state # "none"

(* A local application gets only what was sent to it, and a datagram is    *)
(* read only when the fullest connection can take its frame.               *)
DatagramsAreApart ==
    /\ ~seen.astray
    /\ \A a \in DOMAIN peer : peer[a].out \in {Nil, a}
    /\ ~seen.overrun

(* Nothing waits for nothing: a paused read for a connection that drains   *)
(* or a session that comes, a readable socket for its event, a datagram    *)
(* the socket refused for its timer, one still in a stream for that        *)
(* datagram; and no peer is kept idle past the timeout.                    *)
NoStall ==
    pp.fd /\ Idle =>
       /\ pp.paused => pp.sesh = Nil \/ sess.q > 0
       /\ pp.interest = ~pp.paused
       /\ ~pp.paused /\ Readable(State) => sock.listed
       /\ \A a \in DOMAIN peer :
             /\ peer[a].out # Nil <=> peer[a].send
             /\ Waiting(State, a) > 0 => peer[a].out # Nil
             /\ peer[a].idle + peer[a].deadline <= PEER_TIMEOUT
=============================================================================
