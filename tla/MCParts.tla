------------------------------ MODULE MCParts -------------------------------
(***************************************************************************)
(* The parts at the edges of a program, one at a time: its reactor and the *)
(* reactor's timers, what it is started with and how it stops, what a      *)
(* server makes of a connection before it knows who is there, and the      *)
(* client's local datagram socket.  part says which one a behaviour is     *)
(* about, and the state of the others does not move.                       *)
(***************************************************************************)
EXTENDS Integers, Sequences, FiniteSets, SequencesExt

VARIABLES
    part,
    sec, slot, siphash, stamp, admitted, shown, refused,   \* Admission
    fp, input, arrived,                                    \* FirstPacket
    text, told, given, sets, clean,                        \* Options
    program, pc, binds, asked, built, live, fds, masked, pending, busy,
    uploaded, code,                                        \* Startup
    timers, timer_count, slots, slots_count, free_list, sift, now, pass,
    issued,                                                \* TimerHeap
    watchers, watcher, dead_list, stopped, ready, batch, at,
    running,                                               \* Reactor
    pp, peer, sock, sess, strm, seen                       \* UdpPiper

avars == <<sec, slot, siphash, stamp, admitted, shown, refused>>
fvars == <<fp, input, arrived>>
ovars == <<text, told, given, sets, clean>>
svars == <<program, pc, binds, asked, built, live, fds, masked, pending, busy,
           uploaded, code>>
hvars == <<timers, timer_count, slots, slots_count, free_list, sift, now, pass,
           issued>>
rvars == <<watchers, watcher, dead_list, stopped, ready, batch, at, running>>
uvars == <<pp, peer, sock, sess, strm, seen>>
vars == <<part, avars, fvars, ovars, svars, hvars, rvars, uvars>>

Gate == INSTANCE Admission WITH
    Randoms <- 1 .. 3, Capacity <- 2, TOLERANCE <- 2, AGE_LIMIT <- 4,
    Stamps <- {2, 4}, MaxNow <- 8, now <- sec

(* Records whose length is short of, equal to or beyond what follows, and  *)
(* every header block up to one byte more than the buffer.                 *)
Records == {<<22, hi, lo>> \o [i \in 1 .. n |-> i] :
               hi \in 0 .. 1, lo \in 0 .. 5, n \in 0 .. 6}
Blocks == {<<71>> \o s : s \in UNION {[1 .. n -> {13, 10, 65}] : n \in 0 .. 7}}
Packet == INSTANCE FirstPacket WITH
    HEADER_LEN <- 3, MAX <- 7,
    Inputs <- Records \cup Blocks \cup {<<65, 13>>, <<22>>, <<22, 0>>}

(* Option strings of up to five characters that end in no lone '\'. *)
Chars == {"a", "b", "\\", "=", ";"}
Opts == INSTANCE Options WITH
    Letters <- {"a", "b"}, OptionKeys <- {<<"a">>, <<"b">>},
    Values <- {<< >>, <<"=", "b">>, <<"\\", ";">>},
    Texts <- {s \in UNION {[1 .. n -> Chars] : n \in 0 .. 5} :
                 Last(<<"a">> \o s) # "\\"},
    VAL_CAP <- 3, MaxSets <- 2

Process == INSTANCE Startup WITH
    MAX_BIND <- 3, Addrs <- {"host", "other"}, MaxBind <- 3, MaxAddrs <- 2

(* Six slots: the least heap in which a removal sifts an entry up.  The    *)
(* bound MaxIssued is on the handles: three when slots are recycled.       *)
MaxIssued == IF \E id \in issued : id.gen > 0 THEN 3 ELSE 6
Timers == INSTANCE TimerHeap WITH
    TIMER_MAX_SLOTS <- 6, TIMER_GEN_MAX <- 1, Delays <- {0, 1}, MaxNow <- 0

Loop == INSTANCE Reactor WITH
    Fds <- 1 .. 3, MaxWatchers <- 3, MaxEvents <- 2, pc <- at

(* Two senders, room for one frame and for one datagram. *)
Udp == INSTANCE UdpPiper WITH
    Addrs <- {"a", "b"}, Anon <- "anon", StreamIds <- {"x", "y"}, Nil <- "nil",
    PeerCaps <- {1, 2}, READ_BUDGET <- 2, MAX_REFUSED <- 2, PEER_TIMEOUT <- 2,
    SendCap <- 1, RoomCap <- 1, MaxIn <- 2, MaxDown <- 1,
    WriteFailsNested <- FALSE

ASSUME /\ Gate!AdmissionAssumption /\ Timers!TimerAssumption
       /\ Loop!ReactorAssumption

-----------------------------------------------------------------------------
(* The state of a part the behaviour is not about. *)
N == << >>
NoGate == /\ sec = N /\ slot = N /\ siphash = N /\ stamp = N /\ admitted = N
          /\ shown = N /\ refused = N
NoPacket == fp = N /\ input = N /\ arrived = N
NoOpts == text = N /\ told = N /\ given = N /\ sets = N /\ clean = N
NoProcess == /\ program = N /\ pc = N /\ binds = N /\ asked = N /\ built = N
             /\ live = N /\ fds = N /\ masked = N /\ pending = N /\ busy = N
             /\ uploaded = N /\ code = N
NoUdp == /\ pp = N /\ peer = N /\ sock = N /\ sess = N /\ strm = N /\ seen = N

Init ==
    /\ part \in {"gate", "packet", "options", "process", "timers", "loop",
                "udp"}
    /\ Timers!Init /\ Loop!Init
    /\ IF part = "gate" THEN Gate!AInit ELSE NoGate
    /\ IF part = "packet" THEN Packet!FInit ELSE NoPacket
    /\ IF part = "options" THEN Opts!OInit ELSE NoOpts
    /\ IF part = "process" THEN Process!SInit ELSE NoProcess
    /\ IF part = "udp" THEN Udp!Init ELSE NoUdp

Next ==
    \/ /\ part = "gate" /\ Gate!ANext
       /\ UNCHANGED <<part, fvars, ovars, svars, hvars, rvars, uvars>>
    \/ /\ part = "packet" /\ Packet!FNext
       /\ UNCHANGED <<part, avars, ovars, svars, hvars, rvars, uvars>>
    \/ /\ part = "options" /\ Opts!ONext
       /\ UNCHANGED <<part, avars, fvars, svars, hvars, rvars, uvars>>
    \/ /\ part = "process" /\ Process!SNext
       /\ UNCHANGED <<part, avars, fvars, ovars, hvars, rvars, uvars>>
    \/ /\ part = "timers" /\ Timers!Next
       /\ Cardinality(issued') <= MaxIssued'
       /\ UNCHANGED <<part, avars, fvars, ovars, svars, rvars, uvars>>
    \/ /\ part = "loop" /\ Loop!Next
       /\ UNCHANGED <<part, avars, fvars, ovars, svars, hvars, uvars>>
    \/ /\ part = "udp" /\ Udp!Next
       /\ UNCHANGED <<part, avars, fvars, ovars, svars, hvars, rvars>>

Spec == Init /\ [][Next]_vars

-----------------------------------------------------------------------------
(* Every random is let in at most once (replay_cache.c and the window of   *)
(* server_auth.c together): see Admission.                                 *)
AdmittedOnce == part = "gate" => Gate!AdmittedOnce

(* What a parser takes from its input is what the input says: the first    *)
(* packet ends where the peer's does, whatever arrives with it, and an     *)
(* option holds the value it was last given, whatever characters are in it *)
(* and in the others (firstpacket.c, on_readable of dispatcher.c,          *)
(* ck-client/main.c, config_ssv.c): see FirstPacket and Options.           *)
InputIsExact == /\ part = "packet" => Packet!PacketIsExact
                /\ part = "options" => Opts!OptionsAreKept

(* A program stops with nothing left and in an order its parts survive,    *)
(* whichever part failed to open, and listens on no address twice          *)
(* (server_stack.c, listener.c, signals.c, the two main.c): see Startup.   *)
StopsCleanly == part = "process" => Process!StopsCleanly /\ Process!BindsAreApart

(* The heap of timers, with its slots and handles, is a heap and           *)
(* implements a set of timers (the timers of reactor.c): see TimerHeap and *)
(* TimerSet.                                                               *)
HeapIsSet == Timers!HeapIsSet

(* The loop touches no freed watcher and owns each one once (the           *)
(* descriptors of reactor.c): see Reactor.                                 *)
ReactorIsSound == part = "loop" => Loop!ReactorIsSound

(* It calls back the watcher that is registered for the descriptor, never  *)
(* one that an earlier callback of the batch removed: see Reactor.         *)
NoStaleDispatch == [][part = "loop" => Loop!DispatchesLive]_vars

(* A peer and its stream end together and once, whatever runs inside the   *)
(* release (peer_retire, piper_on_broken); a local application gets only   *)
(* the datagrams meant for it, and one is read only when its frame fits    *)
(* every connection (peer_drain, piper_pump_read): see PeersAreSound and   *)
(* DatagramsAreApart of UdpPiper.                                          *)
PeersAreSound == part = "udp" => Udp!PeersAreSound /\ Udp!DatagramsAreApart

(* A paused socket, a refused datagram and a peer each have something that *)
(* will serve or end them (peer_flush, peer_on_deadline,                   *)
(* cloak_udp_piper_set_session): see UdpPiper.                             *)
NoStall == part = "udp" => Udp!NoStall
=============================================================================
