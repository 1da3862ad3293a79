------------------------------ MODULE MCClient ------------------------------
(***************************************************************************)
(* The client's parts in one run.  part says which one this behaviour is   *)
(* about: the client with one shared session over two connections, the     *)
(* client with a session per local connection, both with rounds without    *)
(* end as in ck-client, the client with an admin session and a limit of    *)
(* rounds, or one handshake in detail.                                     *)
(***************************************************************************)
EXTENDS Integers, Sequences, FiniteSets

CONSTANTS SlotIds, CtxIds, SessionKeys

VARIABLES part,
          up, slot, piper, ledger, past,       \* the client
          hs, net                              \* a handshake

Shared == INSTANCE Client WITH
    NumConn <- 2, MAX_ATTEMPTS <- 2, MAX_ROUNDS <- 0, Singleplex <- FALSE,
    MAX_LOCAL <- 2, MAX_RETRIES <- 1, MAX_REJECTED <- 2,
    AdminSession <- FALSE, DrawsCollide <- TRUE
Single == INSTANCE Client WITH
    NumConn <- 1, MAX_ATTEMPTS <- 2, MAX_ROUNDS <- 0, Singleplex <- TRUE,
    SessionKeys <- {"key"}, MAX_LOCAL <- 2, MAX_RETRIES <- 1, MAX_REJECTED <- 2,
    AdminSession <- FALSE, DrawsCollide <- FALSE
Admin == INSTANCE Client WITH
    NumConn <- 1, MAX_ATTEMPTS <- 2, MAX_ROUNDS <- 2, Singleplex <- FALSE,
    SessionKeys <- {"key"}, MAX_LOCAL <- 1, MAX_RETRIES <- 1, MAX_REJECTED <- 2,
    AdminSession <- TRUE, DrawsCollide <- FALSE
Hs == INSTANCE Handshake WITH
    HELLO_LEN <- 2, PREFIX <- 1, MAX_RECORD_BODY <- 3, SCRATCH <- 2
clientVars == <<up, slot, piper, ledger, past>>
hsVars == <<hs, net>>
vars == <<part, clientVars, hsVars>>

Init == /\ part \in {"shared", "single", "admin", "handshake"}
        /\ Shared!Init /\ Hs!Init
        /\ part # "handshake" =>
              net.authentic /\ net.bytes = <<22, 1, 1, 23, 0, 23, 0, 7>>

OfClient(kind) == part = kind /\ UNCHANGED <<part, hsVars>>
Next ==
    \/ OfClient("shared") /\ Shared!Next
    \/ OfClient("single") /\ Single!Next
    \/ OfClient("admin") /\ Admin!Next
    \/ part = "handshake" /\ Hs!Next /\ UNCHANGED <<part, clientVars>>

(* Every step of a connector is a timer that is armed, or an event that a  *)
(* timer stands in for: a dial and a handshake have deadlines.  So has a   *)
(* local connection until it has a stream.                                 *)
Spec ==
    /\ Init /\ [][Next]_vars
    /\ \A s \in SlotIds : WF_vars(/\ OfClient("admin") /\ s \in DOMAIN slot
                                  /\ Admin!ConnectorStep(s))
    /\ \A c \in CtxIds : WF_vars(OfClient("single") /\ Single!Deadline(c))

-----------------------------------------------------------------------------
(* Whatever fails, and in whatever order things end, every descriptor,     *)
(* registration and stream belongs to a live object that knows of it, and  *)
(* a closed client has none (conn_release, stack_slot_destroy,             *)
(* piper_conn_teardown, cloak_client_stack_close); a handshake that is     *)
(* over keeps nothing (release_reactor).  And no pointer dangles: a local  *)
(* connection's session, the piper's and a slot's connection exist, and    *)
(* the slot that brings up a session for a connection and the connection   *)
(* that awaits it know each other (piper_on_broken, stack_cancel_session). *)
NothingStrays ==
    /\ part = "shared" => Shared!NothingStrays /\ Shared!PointersAreLive
    /\ part = "single" => Single!NothingStrays /\ Single!PointersAreLive
    /\ part = "admin" => Admin!NothingStrays /\ Admin!PointersAreLive
    /\ Hs!EndsCleanly

(* Nothing waits for nothing: a session on the way and a local connection  *)
(* without a relay each have something that will call back, and an open    *)
(* client has its shared session or gave it up (retry_or_fail,             *)
(* stack_arm_round, stack_schedule_replacement, piper_open_stream).        *)
NothingIsForgotten ==
    /\ part = "shared" => Shared!NothingIsForgotten
    /\ part = "single" => Single!NothingIsForgotten
    /\ part = "admin" => Admin!NothingIsForgotten

(* A session is brought up under an id that no other has and that the one  *)
(* before it had not, an admin session under 0 (stack_pick_session_id,     *)
(* stack_schedule_replacement).                                            *)
IdsAreFresh ==
    /\ part = "shared" => Shared!IdsAreFresh
    /\ part = "single" => Single!IdsAreFresh
    /\ part = "admin" => Admin!IdsAreFresh

(* A handshake that succeeds took exactly the three records of the reply   *)
(* from the socket, and one that blames the reply is right (bytes_wanted,  *)
(* feed, do_read).                                                         *)
ReplyIsConsumed == Hs!ReplyIsConsumed

(* A session being brought up comes up, or its slot is given up: by the    *)
(* limit of rounds where there is one, and without one by the deadline of  *)
(* the local connection it is for (stack_arm_round, retry_or_fail,         *)
(* piper_on_deadline).                                                     *)
OnTheWay(s) == /\ part \in {"single", "admin"} /\ s \in DOMAIN slot
               /\ slot[s].state = "pending"
BringUpEnds == \A s \in SlotIds : OnTheWay(s) ~> ~OnTheWay(s)
=============================================================================
