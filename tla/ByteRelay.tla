------------------------------ MODULE ByteRelay ------------------------------
(***************************************************************************)
(* cloak_relay_t (libcloak-common/src/relay.c): two sockets spliced, as a  *)
(* redirected visitor is with the cover site.  Bytes are numbered in the   *)
(* order their sender wrote them; side 0 starts with a preload, the bytes  *)
(* that were read from it before the relay existed.                        *)
(*                                                                         *)
(*   rl    the relay: phase, q[i] the bytes read from side i and not yet   *)
(*         written to the other, read_eof, interest[i], done, told         *)
(*   sk    the sockets and epoll: unread bytes, end of file, error, room   *)
(*         to write, what was written, and the ready list                  *)
(*   sent  how many bytes each side has sent                               *)
(***************************************************************************)
EXTENDS Integers, SequencesExt

CONSTANTS QueueCap,   \* capacity of a queue
          RoomCap,    \* room of a socket's send buffer
          MaxSent     \* bound: bytes a side sends

VARIABLES rl, sk, sent
vars == <<rl, sk, sent>>

Sides == {0, 1}
State == [rl |-> rl, sk |-> sk]
Becomes(x) == \E y \in {x} : rl' = y.rl /\ sk' = y.sk

(* Op applied to the value v. *)
With(v, Op(_)) == CHOOSE r \in {Op(w) : w \in {v}} : TRUE

Smaller(a, b) == IF a <= b THEN a ELSE b
Readable(s) == s.in # <<>> \/ s.eof \/ s.err
Writable(s) == s.room > 0 \/ s.err
Fires(s, mask) == \/ "R" \in mask /\ Readable(s)
                  \/ "W" \in mask /\ Writable(s)
                  \/ s.err

(* desired_interest: read while the queue has room, write while the other  *)
(* side's queue has bytes.                                                 *)
DesiredInterest(r, i) ==
    (IF ~r.read_eof[i] /\ Len(r.q[i]) < QueueCap THEN {"R"} ELSE {})
        \cup (IF r.q[1 - i] # <<>> THEN {"W"} ELSE {})

(* Mutant: a mask that does not change is not registered again. *)
SyncSideChanged(x, i) ==
    LET want == DesiredInterest(x.rl, i)
    IN [x EXCEPT !.rl.interest[i] = want,
                 !.sk[i].listed = @ \/ (want # x.rl.interest[i]
                                           /\ Fires(x.sk[i], want))]
(* sync_interest for one side: registering again asks epoll for a fresh    *)
(* edge, which a full queue that just drained needs.                       *)
SyncSide(x, i) ==
    LET want == DesiredInterest(x.rl, i)
        idle == want = {} /\ x.rl.interest[i] = {}
    IN [x EXCEPT !.rl.interest[i] = want,
                 !.sk[i].listed = @ \/ (~idle /\ Fires(x.sk[i], want))]
SyncInterest(x) == With(SyncSide(x, 0), LAMBDA y : SyncSide(y, 1))

(* pump_read: until the queue is full, or nothing more is there. *)
TakenIn(x, i) == Smaller(QueueCap - Len(x.rl.q[i]), Len(x.sk[i].in))
PumpRead(x, i) ==
    LET n == TakenIn(x, i)
        took == [x EXCEPT !.rl.q[i] = @ \o SubSeq(x.sk[i].in, 1, n),
                          !.sk[i].in = SubSeq(@, n + 1, Len(@))]
    IN IF Len(took.rl.q[i]) < QueueCap /\ x.sk[i].eof
       THEN [took EXCEPT !.rl.read_eof[i] = TRUE] ELSE took
ReadFails(x, i) ==
    /\ Len(x.rl.q[i]) + TakenIn(x, i) < QueueCap
    /\ x.sk[i].eof \/ x.sk[i].err

(* pump_write: what side i's peer gets comes from the other side's queue. *)
PumpWrite(x, i) ==
    LET n == IF x.sk[i].err THEN 0
             ELSE Smaller(x.sk[i].room, Len(x.rl.q[1 - i]))
    IN [x EXCEPT !.sk[i].out = @ \o SubSeq(x.rl.q[1 - i], 1, n),
                 !.sk[i].room = @ - n,
                 !.rl.q[1 - i] = SubSeq(@, n + 1, Len(@))]
WriteFails(x, i) == x.sk[i].err /\ x.rl.q[1 - i] # <<>>

(* relay_teardown and relay_close_fds. *)
Teardown(x, fire) ==
    [x EXCEPT !.rl.done = TRUE, !.rl.told = @ + (IF fire THEN 1 ELSE 0),
              !.sk = [i \in Sides |-> [@[i] EXCEPT !.listed = FALSE]]]

(* The last pass over both sides before a relay that lost one ends. *)
LastPass(x, i) ==
    With(PumpRead(x, 1 - i), LAMBDA r :
        With(PumpWrite(r, 1 - i), LAMBDA w : PumpWrite(w, i)))

-----------------------------------------------------------------------------
(* cloak_relay_start; the preload must fit the queue. *)
Start ==
    /\ rl.phase = "none"
    /\ \E n \in 0..Smaller(Len(sk[0].in), QueueCap) :
          LET cut == [sk EXCEPT ![0].in = SubSeq(@, n + 1, Len(@))]
          IN Becomes(SyncInterest(
                [rl |-> [rl EXCEPT !.phase = "running",
                                   !.q[0] = SubSeq(sk[0].in, 1, n),
                                   !.interest = [i \in Sides |-> {"R"}]],
                 sk |-> [i \in Sides |->
                           [cut[i] EXCEPT !.listed = Fires(cut[i], {"R"})]]]))
    /\ UNCHANGED sent

(* A preload too long, no memory, or a descriptor that cannot be watched:  *)
(* nothing is kept.                                                        *)
StartRefused == /\ rl.phase = "none" /\ rl' = [rl EXCEPT !.phase = "refused"]
                /\ UNCHANGED <<sk, sent>>

(* relay_on_event: write first, which may make room to read; a side that   *)
(* ended gets a last pass over what is in flight.                          *)
Handled(x, i, evR, evW) ==
    With(IF evW THEN PumpWrite(x, i) ELSE x, LAMBDA w :
    With(PumpRead(w, i), LAMBDA r :
       IF evW /\ WriteFails(x, i) THEN Teardown(w, TRUE)
       ELSE IF ~evR THEN SyncInterest(w)
       ELSE IF ReadFails(w, i) THEN Teardown(LastPass(r, i), TRUE)
       ELSE IF WriteFails(r, 1 - i) THEN Teardown(r, TRUE)
       ELSE SyncInterest(PumpWrite(r, 1 - i))))
OnEvent(i) ==
    /\ rl.phase = "running" /\ ~rl.done /\ sk[i].listed
    /\ Becomes(Handled([State EXCEPT !.sk[i].listed = FALSE], i,
                       sk[i].err \/ ("R" \in rl.interest[i] /\ Readable(sk[i])),
                       "W" \in rl.interest[i] /\ Writable(sk[i])))
    /\ UNCHANGED sent

(* cloak_relay_stop: the owner is not called. *)
Stop == /\ rl.phase = "running" /\ ~rl.done
        /\ Becomes(Teardown(State, FALSE)) /\ UNCHANGED sent

-----------------------------------------------------------------------------
(* The peers; a change is an edge. *)
PeerBecomes(i, s) ==
    /\ ~rl.done /\ rl.phase # "refused"
    /\ sk' = [sk EXCEPT ![i] = [s EXCEPT !.listed =
                 @ \/ (rl.phase = "running" /\ Fires(s, rl.interest[i]))]]
    /\ UNCHANGED rl

PeerSends(i) ==
    /\ sent[i] < MaxSent /\ ~sk[i].eof /\ ~sk[i].err
    /\ sent' = [sent EXCEPT ![i] = @ + 1]
    /\ PeerBecomes(i, [sk[i] EXCEPT !.in = Append(@, sent[i] + 1)])
PeerEnds(i) == /\ ~sk[i].eof /\ ~sk[i].err /\ UNCHANGED sent
               /\ PeerBecomes(i, [sk[i] EXCEPT !.eof = TRUE])
PeerResets(i) == /\ ~sk[i].err /\ UNCHANGED sent
                 /\ PeerBecomes(i, [sk[i] EXCEPT !.err = TRUE, !.in = <<>>])
PeerReads(i) == /\ sk[i].room < RoomCap /\ UNCHANGED sent
                /\ PeerBecomes(i, [sk[i] EXCEPT !.room = RoomCap])

Init ==
    /\ rl = [phase |-> "none", q |-> [i \in Sides |-> <<>>],
             read_eof |-> [i \in Sides |-> FALSE],
             interest |-> [i \in Sides |-> {}], done |-> FALSE, told |-> 0]
    /\ sk = [i \in Sides |-> [in |-> <<>>, eof |-> FALSE, err |-> FALSE,
                              room |-> RoomCap, out |-> <<>>, listed |-> FALSE]]
    /\ sent = [i \in Sides |-> 0]

Next == \/ Start \/ StartRefused \/ Stop
        \/ \E i \in Sides : \/ OnEvent(i) \/ PeerSends(i) \/ PeerEnds(i)
                             \/ PeerResets(i) \/ PeerReads(i)

-----------------------------------------------------------------------------
(* Properties. *)

(* A running relay misses no edge: it waits for exactly what it can use,   *)
(* and what a socket has to report is on the ready list.                   *)
NoStall ==
    rl.phase = "running" /\ ~rl.done => \A i \in Sides :
        /\ rl.interest[i] = DesiredInterest(rl, i)
        /\ ("R" \in rl.interest[i] /\ Readable(sk[i]))
              \/ ("W" \in rl.interest[i] /\ Writable(sk[i])) => sk[i].listed

(* The relay never spins: an event it is called for changes something, so  *)
(* a dead peer behind a full queue is not reported again and again.        *)
NoSpin == rl.phase = "running" /\ ~rl.done => \A i \in Sides :
             sk[i].listed => ENABLED <<OnEvent(i)>>_vars

(* Each peer gets the other's bytes in order, the preload first, none      *)
(* twice and none left out.                                                *)
InOrder == \A i \in Sides : sk[i].out = [k \in 1..Len(sk[i].out) |-> k]

(* A relay that is done has told its owner at most once and has no event   *)
(* left.                                                                   *)
FinishedIsInert ==
    rl.told <= (IF rl.done THEN 1 ELSE 0)
        /\ (rl.done => \A i \in Sides : ~sk[i].listed)

(* Something to move, or a side that is gone. *)
Owes == rl.phase = "running" /\ ~rl.done /\ \E i \in Sides :
           Readable(sk[i]) \/ rl.q[i] # <<>>
=============================================================================
