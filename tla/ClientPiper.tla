---------------------------- MODULE ClientPiper -----------------------------
(***************************************************************************)
(* cloak_client_piper_t (libcloak-client/src/client_piper.c): every local  *)
(* connection becomes a stream of a session, the shared one or, in         *)
(* singleplex, one brought up for it.                                      *)
(*                                                                         *)
(* x.piper: whether it is ready, the shared session's slot (Nil if none),  *)
(* the streams refused on it, and by connection a record.  A relay is what *)
(* StreamRelay promises: it starts, finds the pool full, or fails; it ends *)
(* at any event or notification and then closes its descriptor.            *)
(***************************************************************************)
EXTENDS Connector

CONSTANTS CtxIds,          \* addresses for local connections
          Singleplex,      \* cfg.singleplex
          MAX_LOCAL,       \* cfg.max_local_conns
          MAX_RETRIES,     \* cfg.max_retries
          MAX_REJECTED     \* CLOAK_CLIENT_PIPER_MAX_REJECTED_STREAMS

NewPiper == [ready |-> FALSE, sesh |-> Nil, rejected |-> 0, conn |-> << >>]
NewCtx(sesh) == [fd |-> TRUE, watched |-> FALSE, deadline |-> FALSE,
                 sesh |-> sesh, own |-> FALSE, awaiting |-> FALSE,
                 stream |-> FALSE, relaying |-> FALSE, retry |-> FALSE,
                 retries |-> 0, first |-> FALSE, rejected |-> 0]

P(x, c) == x.piper.conn[c]
Set(x, c, r) == [x EXCEPT !.piper.conn[c] = r]
FreeCtx(x) == CtxIds \ DOMAIN x.piper.conn

(* cloak_stream_relay_stop, or the relay's own end. *)
RelayStop(l, c) == CloseFd(Cancel(l, {"relay"}, c), c)

(* What piper_conn_teardown gives back before the session is touched. *)
Quiet(l, r, c) ==
    LET a == IF r.deadline THEN Cancel(l, {"deadline"}, c) ELSE l
        b == IF r.retry THEN Cancel(a, {"start"}, c) ELSE a
        d == IF r.relaying THEN RelayStop(b, c) ELSE b
        e == IF r.watched THEN Cancel(d, {"local"}, c) ELSE d
    IN IF r.fd THEN CloseFd(e, c) ELSE e

(* Mutant: a session of the connection's own is left open. *)
TeardownNoClose(x, c) ==
    With(IF P(x, c).awaiting THEN CancelSession(x, c) ELSE x, LAMBDA y :
       [y EXCEPT !.ledger = Quiet(@, P(x, c), c),
                 !.piper.conn = Without(@, c)])
(* piper_conn_teardown: an awaited session is cancelled, the relay stopped *)
(* before its stream is released, and a session of its own closed.         *)
ConnTeardown(x, c) ==
    With(IF P(x, c).awaiting THEN CancelSession(x, c) ELSE x, LAMBDA y :
    With([y EXCEPT !.ledger = Quiet(@, P(x, c), c),
                   !.piper.conn = Without(@, c)], LAMBDA z :
       IF P(x, c).own THEN SessionClose(z, P(x, c).sesh) ELSE z))

-----------------------------------------------------------------------------
(* From the first byte to the relay. *)

(* piper_try_start_relay: rc is what the relay's start returns; the first  *)
(* bytes are written once it runs, which a closed session refuses.         *)
TryStartRelay(x, c, rc, wrote, armed) ==
    LET open == x.slot[P(x, c).sesh].sesh = "open"
    IN CASE rc = "ok" ->
              With(Set([x EXCEPT !.ledger = Register(@, "relay", c)], c,
                       [P(x, c) EXCEPT !.fd = FALSE, !.relaying = TRUE,
                                       !.first = FALSE]), LAMBDA y :
                 IF P(x, c).first /\ ~(wrote /\ open)
                 THEN ConnTeardown(y, c) ELSE y)
         [] rc = "full" /\ P(x, c).retries < MAX_RETRIES /\ armed ->
              Set([x EXCEPT !.ledger = Register(@, "start", c)], c,
                  [P(x, c) EXCEPT !.retries = @ + 1, !.retry = TRUE])
         [] OTHER -> ConnTeardown(x, c)

(* piper_on_retry_timer. *)
OnStartTimer(x, c, rc, wrote, armed) ==
    TryStartRelay(Set([x EXCEPT !.ledger = Cancel(@, {"start"}, c)], c,
                      [P(x, c) EXCEPT !.retry = FALSE]), c, rc, wrote, armed)

(* piper_on_relay_done. *)
OnRelayDone(x, c) ==
    ConnTeardown(Set([x EXCEPT !.ledger = RelayStop(@, c)], c,
                     [P(x, c) EXCEPT !.relaying = FALSE]), c)

(* piper_open_stream: only a stream takes the deadline away. *)
OpenStream(x, c, opened, rc, wrote, armed) ==
    With(Set([x EXCEPT !.ledger = Cancel(@, {"deadline", "local"}, c)], c,
             [P(x, c) EXCEPT !.deadline = FALSE, !.watched = FALSE,
                             !.first = TRUE]), LAMBDA y :
       IF ~opened \/ x.slot[P(x, c).sesh].sesh # "open" THEN ConnTeardown(y, c)
       ELSE TryStartRelay(Set(y, c, [P(y, c) EXCEPT !.stream = TRUE]), c,
                          rc, wrote, armed))

(* Mutant: the deadline ends where the bring-up begins. *)
BeginSessionNoDeadline(x, c, s, id) ==
    With(Set([x EXCEPT !.ledger = Cancel(@, {"local", "deadline"}, c)], c,
             [P(x, c) EXCEPT !.watched = FALSE, !.deadline = FALSE,
                             !.awaiting = TRUE]), LAMBDA y :
       IF s # Nil THEN NewSession(y, s, c, id, TRUE)
       ELSE ConnTeardown(Set(y, c, [P(y, c) EXCEPT !.awaiting = FALSE]), c))
(* piper_begin_session: the descriptor is not watched meanwhile, the       *)
(* deadline stays.                                                         *)
BeginSession(x, c, s, id) ==
    With(Set([x EXCEPT !.ledger = Cancel(@, {"local"}, c)], c,
             [P(x, c) EXCEPT !.watched = FALSE, !.awaiting = TRUE]), LAMBDA y :
       IF s # Nil THEN NewSession(y, s, c, id, TRUE)
       ELSE ConnTeardown(Set(y, c, [P(y, c) EXCEPT !.awaiting = FALSE]), c))

-----------------------------------------------------------------------------
(* Calls from the listener, the stack and the session. *)

(* cloak_client_piper_on_accept: refused, or watched under a deadline. *)
Refuses(x) == \/ ~Singleplex /\ x.piper.sesh = Nil
              \/ Cardinality(DOMAIN x.piper.conn) >= MAX_LOCAL
OnAccept(x, c, fault) ==
    LET linked == [x EXCEPT
                     !.ledger = OpenFd(@, c),
                     !.piper.conn = WithEntry(@, c,
                        NewCtx(IF Singleplex THEN Nil ELSE x.piper.sesh))]
        watched == Set([linked EXCEPT !.ledger = Register(@, "local", c)], c,
                       [P(linked, c) EXCEPT !.watched = TRUE])
    IN CASE fault = "watch" -> ConnTeardown(linked, c)
         [] fault = "timer" -> ConnTeardown(watched, c)
         [] OTHER -> Set([watched EXCEPT !.ledger = Register(@, "deadline", c)],
                         c, [P(watched, c) EXCEPT !.deadline = TRUE])

(* cloak_client_piper_conn_session_ready, ..._conn_session_failed. *)
SessionReady(x, c, s, watchable) ==
    IF ~P(x, c).awaiting THEN x
    ELSE With(Set(x, c, [P(x, c) EXCEPT !.awaiting = FALSE, !.sesh = s,
                                        !.own = TRUE]), LAMBDA y :
       IF ~watchable THEN ConnTeardown(y, c)
       ELSE Set([y EXCEPT !.ledger = Register(@, "local", c)], c,
                [P(y, c) EXCEPT !.watched = TRUE]))
SessionFailed(x, c) ==
    IF ~P(x, c).awaiting THEN x
    ELSE ConnTeardown(Set(x, c, [P(x, c) EXCEPT !.awaiting = FALSE]), c)

(* cloak_client_piper_set_session: a new session has refused nothing. *)
SetSession(x, s) == [x EXCEPT !.piper.sesh = s, !.piper.rejected = 0]

(* piper_session_owner and piper_on_new_stream: the server may open no     *)
(* stream; a session that keeps trying is closed, whoever it belongs to.   *)
Owner(x, s) == {c \in DOMAIN x.piper.conn :
                   P(x, c).own /\ P(x, c).sesh = s}
OnNewStream(x, s) ==
    LET n == 1 + IF Owner(x, s) = {} THEN x.piper.rejected
                 ELSE P(x, CHOOSE c \in Owner(x, s) : TRUE).rejected
        y == IF Owner(x, s) = {} THEN [x EXCEPT !.piper.rejected = n]
             ELSE LET c == CHOOSE c \in Owner(x, s) : TRUE
                  IN Set(x, c, [P(x, c) EXCEPT !.rejected = n])
    IN IF n >= MAX_REJECTED THEN SessionClose(y, s) ELSE y

(* piper_on_stream_data and piper_on_writable: each of the session's       *)
(* relays is told, and the ones in ended end.                              *)
Relaying(x, s) == {c \in DOMAIN x.piper.conn :
                      P(x, c).relaying /\ P(x, c).sesh = s}
Told(x, ended) == FoldLeft(OnRelayDone, x, SetToSeq(ended))

(* piper_on_broken up to its chain: the connections of that session, and   *)
(* only they, are torn down while it still lives.                          *)
OnBroken(x, s) ==
    With(FoldLeft(ConnTeardown, x,
            SetToSeq({c \in DOMAIN x.piper.conn : P(x, c).sesh = s})),
         LAMBDA y : [y EXCEPT !.piper.sesh = IF @ = s THEN Nil ELSE @])

(* cloak_client_piper_destroy. *)
PiperDestroy(x) ==
    With(FoldLeft(ConnTeardown, x, SetToSeq(DOMAIN x.piper.conn)), LAMBDA y :
       [y EXCEPT !.piper = NewPiper])
=============================================================================
