----------------------------- MODULE Connector ------------------------------
(***************************************************************************)
(* cloak_client_connector_t (libcloak-client/src/client_connector.c):      *)
(* dials and handshakes the connections of one session, trying each again  *)
(* when it fails, and assembles the session when all of them agree on its  *)
(* key.  And the slots of the client stack (client_stack.c): one per       *)
(* session that is up or being brought up, in rounds of a connector.       *)
(*                                                                         *)
(* The operators act on a state x that has, for every slot s of the client *)
(* stack, a connector x.slot[s].c and, in x.ledger, what it holds: under   *)
(* <<s, i>> for connection i, under s for the connector and the session.   *)
(* Every entry point ends in finish, which calls the stack: Client applies *)
(* it, as what the stack does when a connector or a session ends, for it   *)
(* calls the piper.                                                        *)
(*                                                                         *)
(* The rest of x.slot[s]: the piper's connection the session is for (Nil   *)
(* when it is shared), state, session (sesh: none, open, or closing once   *)
(* it is closed and not yet reported), session id, round, and whether the  *)
(* timer of the next round is armed.  x.past is history: whether the       *)
(* shared session was given up, the id of the shared round or session that *)
(* ended last, and whether an id was taken that was in use.                *)
(***************************************************************************)
EXTENDS Ledger

CONSTANTS NumConn,        \* cfg.num_conn
          MAX_ATTEMPTS,   \* cfg.max_attempts
          SlotIds,        \* addresses for slots, used again once free
          MAX_ROUNDS,     \* cfg.max_rounds, 0 when unbounded
          AdminSession,   \* cfg.admin_session
          DrawsCollide    \* every draw of an id may hit one in use

Conns == 1..NumConn
HsKinds == {"hs_fd", "hs_deadline"}

(* Op applied to the value v. *)
With(v, Op(_)) == CHOOSE r \in {Op(w) : w \in {v}} : TRUE

(* cloak_client_connector_init: the conns, each with its own browser. *)
NewConn == [attempts |-> 0, stage |-> "idle", retry |-> FALSE, fd |-> FALSE,
            key |-> Nil, browser |-> "chrome"]
NewConnector == [status |-> "pending", kickoff |-> FALSE, owned |-> FALSE,
                 conn |-> [i \in Conns |-> NewConn]]
NoConnector == [NewConnector EXCEPT !.status = "none"]

-----------------------------------------------------------------------------
(* Giving things back. *)

(* Mutant: a handshake in progress keeps its deadline. *)
ConnReleaseHs(x, s, i) ==
    LET k == x.slot[s].c.conn[i]
        a == IF k.retry THEN Cancel(x.ledger, {"retry"}, <<s, i>>) ELSE x.ledger
        b == IF k.stage = "dial" THEN DialCancel(a, <<s, i>>) ELSE a
        d == IF k.stage = "hs" THEN Cancel(b, {"hs_fd"}, <<s, i>>) ELSE b
    IN [x EXCEPT !.ledger = IF k.fd THEN CloseFd(d, <<s, i>>) ELSE d,
                 !.slot[s].c.conn[i] = [@ EXCEPT !.retry = FALSE, !.fd = FALSE,
                       !.stage = IF @ = "done" THEN @ ELSE "idle"]]
(* conn_release. *)
ConnRelease(x, s, i) ==
    LET k == x.slot[s].c.conn[i]
        a == IF k.retry THEN Cancel(x.ledger, {"retry"}, <<s, i>>) ELSE x.ledger
        b == IF k.stage = "dial" THEN DialCancel(a, <<s, i>>) ELSE a
        d == IF k.stage = "hs" THEN Cancel(b, HsKinds, <<s, i>>) ELSE b
    IN [x EXCEPT !.ledger = IF k.fd THEN CloseFd(d, <<s, i>>) ELSE d,
                 !.slot[s].c.conn[i] = [@ EXCEPT !.retry = FALSE, !.fd = FALSE,
                       !.stage = IF @ = "done" THEN @ ELSE "idle"]]

(* connector_release. *)
ConnectorRelease(x, s) ==
    FoldLeft(LAMBDA y, i : ConnRelease(y, s, i),
             [x EXCEPT !.ledger = Cancel(@, {"kickoff"}, s),
                       !.slot[s].c.kickoff = FALSE],
             [i \in Conns |-> i])

(* cloak_session_destroy: the pool's descriptors and their watchers. *)
SessionDestroy(x, s) ==
    [x EXCEPT !.ledger = CloseFd(Cancel(@, {"pool"}, s), s)]
DestroyOwned(x, s) ==
    IF x.slot[s].c.owned
    THEN [SessionDestroy(x, s) EXCEPT !.slot[s].c.owned = FALSE] ELSE x

(* fail: everything goes, a half-built session too. *)
ConnectorFail(x, s) ==
    IF x.slot[s].c.status # "pending" THEN x
    ELSE With(ConnectorRelease([x EXCEPT !.slot[s].c.status = "failed"], s),
              LAMBDA y : DestroyOwned(y, s))

(* cloak_client_connector_destroy. *)
ConnectorDestroy(x, s) ==
    With(ConnectorRelease(x, s), LAMBDA y :
       [DestroyOwned(y, s) EXCEPT !.slot[s].c = NoConnector])

-----------------------------------------------------------------------------
(* Attempts. *)

(* retry_or_fail: a timer, until the attempts are used up. *)
RetryOrFail(x, s, i, armed) ==
    IF x.slot[s].c.conn[i].attempts >= MAX_ATTEMPTS \/ ~armed
    THEN ConnectorFail(x, s)
    ELSE [x EXCEPT !.slot[s].c.conn[i].retry = TRUE,
                   !.ledger = Register(@, "retry", <<s, i>>)]

(* start_attempt. *)
StartAttempt(x, s, i, way, armed) ==
    With([x EXCEPT !.slot[s].c.conn[i].attempts = @ + 1], LAMBDA y :
       IF way = "failed" THEN RetryOrFail(y, s, i, armed)
       ELSE [y EXCEPT !.slot[s].c.conn[i].stage = "dial",
                      !.ledger = DialStart(@, <<s, i>>, way, TRUE)])

(* cloak_client_connector_start, and on_kickoff: the first attempt of      *)
(* every connection, until one of them fails them all.                     *)
ConnectorStart(x, s) ==
    [x EXCEPT !.slot[s].c = [NewConnector EXCEPT !.kickoff = TRUE],
              !.ledger = Register(@, "kickoff", s)]
OnKickoff(x, s, ways, armed) ==
    FoldLeft(LAMBDA y, i : IF y.slot[s].c.status # "pending" THEN y
                           ELSE StartAttempt(y, s, i, ways[i], armed),
             [x EXCEPT !.slot[s].c.kickoff = FALSE,
                       !.ledger = Cancel(@, {"kickoff"}, s)],
             [i \in Conns |-> i])

(* on_retry. *)
OnRetry(x, s, i, way, armed) ==
    With([x EXCEPT !.slot[s].c.conn[i].retry = FALSE,
                   !.ledger = Cancel(@, {"retry"}, <<s, i>>)], LAMBDA y :
       IF y.slot[s].c.status # "pending" THEN y
       ELSE StartAttempt(y, s, i, way, armed))

(* The descriptor is closed and the connection tried again. *)
DropAndRetry(x, s, i, armed) ==
    With([x EXCEPT !.slot[s].c.conn[i].fd = FALSE, !.ledger = CloseFd(@, <<s, i>>)],
         LAMBDA y : RetryOrFail(y, s, i, armed))

(* on_dial_done; hs says how the handshake starts: init fails for a reason *)
(* no retry would cure, start fails, or it is under way.                   *)
OnDialDone(x, s, i, success, hs, armed) ==
    With([x EXCEPT !.slot[s].c.conn[i].stage = "idle",
                   !.slot[s].c.conn[i].fd = success,
                   !.ledger = DialFinish(@, <<s, i>>, success)], LAMBDA y :
       IF ~success THEN RetryOrFail(y, s, i, armed)
       ELSE IF hs = "init"
       THEN ConnectorFail([y EXCEPT !.slot[s].c.conn[i].fd = FALSE,
                                    !.ledger = CloseFd(@, <<s, i>>)], s)
       ELSE IF hs = "start" THEN DropAndRetry(y, s, i, armed)
       ELSE [y EXCEPT !.slot[s].c.conn[i].stage = "hs",
                      !.ledger = Register(Register(@, "hs_fd", <<s, i>>),
                                          "hs_deadline", <<s, i>>)])

-----------------------------------------------------------------------------
(* The session. *)

(* keys_agree. *)
KeysAgree(c) == \A i \in Conns : c.conn[i].key = c.conn[1].key

(* The first n connections move to the session's pool. *)
HandOver(x, s, n) ==
    LET moved == FoldLeft(LAMBDA l, i : CloseFd(l, <<s, i>>), x.ledger,
                          [i \in 1..n |-> i])
    IN [x EXCEPT !.slot[s].c.conn = [i \in Conns |->
                       IF i <= n THEN [@[i] EXCEPT !.fd = FALSE] ELSE @[i]],
                 !.ledger = Register(IF n = 0 THEN moved ELSE OpenFd(moved, s),
                                     "pool", s)]

(* assemble; built says what goes wrong: cloak_session_init, or a          *)
(* connection that cannot be added after the ones before it were.          *)
Assemble(x, s, built) ==
    IF ~KeysAgree(x.slot[s].c) \/ built = "init" THEN ConnectorFail(x, s)
    ELSE IF built = "add"
    THEN With(HandOver([x EXCEPT !.slot[s].c.owned = TRUE], s, NumConn - 1),
              LAMBDA y : ConnectorFail(y, s))
    ELSE With(HandOver([x EXCEPT !.slot[s].c.status = "done"], s, NumConn),
              LAMBDA y : ConnectorRelease(y, s))

(* on_handshake_done: the handshake has let go of descriptor and deadline; *)
(* key is Nil when it failed, and chrome then gives way to firefox.        *)
OnHandshakeDone(x, s, i, key, built, armed) ==
    With([x EXCEPT !.slot[s].c.conn[i].stage = IF key = Nil THEN "idle" ELSE "done",
                   !.slot[s].c.conn[i].key = key,
                   !.ledger = Cancel(@, HsKinds, <<s, i>>)], LAMBDA y :
       IF key = Nil
       THEN DropAndRetry([y EXCEPT !.slot[s].c.conn[i].browser = "firefox"],
                         s, i, armed)
       ELSE IF \A j \in Conns : y.slot[s].c.conn[j].stage = "done"
       THEN Assemble(y, s, built) ELSE y)
-----------------------------------------------------------------------------
(* The slots of the client stack. *)

RoundCap == IF MAX_ROUNDS = 0 THEN 1 ELSE MAX_ROUNDS

FreeSlots(x) == SlotIds \ DOMAIN x.slot

(* stack_id_in_use, stack_pick_session_id: what the draws may end with: an *)
(* id that no slot has, this slot's last one included (which one does not  *)
(* matter), or, once the draws are used up, the last one drawn.            *)
Ids == 1..(Cardinality(SlotIds) + 1)
IdInUse(x, id) == \E t \in DOMAIN x.slot : x.slot[t].id = id
PickSessionId(x) ==
    IF AdminSession THEN {0}
    ELSE IF DrawsCollide THEN Ids
    ELSE {CHOOSE i \in Ids : ~IdInUse(x, i) /\ \A j \in 1..(i - 1) : IdInUse(x, j)}

(* stack_slot_new. *)
SlotNew(x, s, ctx, shared) ==
    [x EXCEPT !.slot = WithEntry(@, s,
        [ctx |-> ctx, shared |-> shared, state |-> "pending",
         c |-> NoConnector, sesh |-> "none", id |-> 0, round |-> 0,
         timer |-> FALSE])]

(* stack_slot_destroy: timer, connector and session go with the slot. *)
SlotDestroy(x, s) ==
    LET sl == x.slot[s]
    IN With([x EXCEPT !.ledger = IF sl.timer THEN Cancel(@, {"round"}, s) ELSE @],
            LAMBDA a :
       With(IF sl.c.status # "none" THEN ConnectorDestroy(a, s) ELSE a, LAMBDA b :
          [IF sl.sesh # "none" THEN SessionDestroy(b, s) ELSE b
              EXCEPT !.slot = Without(@, s)]))

(* stack_start_round: a new id and a new connector, whose memory or timer  *)
(* may not be had.                                                         *)
StartRound(x, s, id, started) ==
    With([x EXCEPT !.slot[s].id = id,
                   !.past.collided = @ \/ IdInUse(x, id),
                   !.slot[s].round = IF @ < RoundCap THEN @ + 1 ELSE @],
         LAMBDA y : IF started THEN ConnectorStart(y, s) ELSE y)

(* stack_arm_round. *)
CanArmRound(x, s, armed) ==
    armed /\ (MAX_ROUNDS = 0 \/ x.slot[s].round + 1 <= MAX_ROUNDS)
ArmRound(x, s) ==
    [x EXCEPT !.slot[s].timer = TRUE, !.ledger = Register(@, "round", s)]

(* stack_new_session: a slot for one connection of the piper. *)
NewSession(x, s, ctx, id, started) ==
    With(StartRound(SlotNew(x, s, ctx, FALSE), s, id, started), LAMBDA y :
       IF started THEN y ELSE SlotDestroy(y, s))

(* stack_cancel_session. *)
CancelSession(x, ctx) ==
    LET mine == {s \in DOMAIN x.slot : x.slot[s].ctx = ctx}
    IN IF mine = {} THEN x ELSE SlotDestroy(x, CHOOSE s \in mine : TRUE)

(* cloak_session_close: the report to on_broken follows from the reactor. *)
SessionClose(x, s) ==
    IF x.slot[s].sesh = "open" THEN [x EXCEPT !.slot[s].sesh = "closing"] ELSE x
=============================================================================
