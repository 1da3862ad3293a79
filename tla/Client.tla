------------------------------- MODULE Client -------------------------------
(***************************************************************************)
(* The client: the stack, its connectors and the local piper together.     *)
(* One action per callback the reactor, the listener or a session makes.   *)
(* What may fail at run time (a timer, a registration, memory, a stream, a *)
(* relay) is chosen at each call.                                          *)
(***************************************************************************)
EXTENDS ClientPiper

CONSTANTS SessionKeys   \* session keys a server may answer with

VARIABLES up,        \* none, open, closed
          slot,      \* the slots of the stack, by address
          piper,     \* the local piper
          ledger,    \* descriptors and registrations
          past       \* history, see Connector
vars == <<up, slot, piper, ledger, past>>

State == [slot |-> slot, piper |-> piper, ledger |-> ledger, past |-> past]
Becomes(x) == \E y \in {x} : /\ slot' = y.slot /\ piper' = y.piper
                             /\ ledger' = y.ledger /\ past' = y.past

-----------------------------------------------------------------------------
(* What the stack does when a connector or a session ends. *)

(* A shared round or session is over, for the history. *)
Ended(x, s) == IF x.slot[s].shared THEN [x EXCEPT !.past.prev = x.slot[s].id] ELSE x

(* stack_give_up. *)
GiveUp(x, s) ==
    LET ctx == x.slot[s].ctx
    IN With([SlotDestroy([x EXCEPT !.slot[s].ctx = Nil], s)
                EXCEPT !.past.gaveup = @ \/ x.slot[s].shared], LAMBDA y :
       IF ctx = Nil THEN y ELSE SessionFailed(y, ctx))

(* stack_conn_done: the connector goes first, then the session is handed   *)
(* to whom it is for, or another round is armed.                           *)
ConnDone(x, s, fault) ==
    LET c == x.slot[s].c
    IN With(ConnectorDestroy(x, s), LAMBDA d :
       IF c.status = "done"
       THEN With([d EXCEPT !.slot[s] = [@ EXCEPT
                     !.sesh = "open", !.state = "live", !.ctx = Nil]], LAMBDA live :
               IF x.slot[s].shared THEN SetSession(live, s)
               ELSE IF x.slot[s].ctx = Nil THEN live
               ELSE SessionReady(live, x.slot[s].ctx, s, fault # "watch"))
       ELSE With(Ended(d, s), LAMBDA e :
               IF CanArmRound(e, s, fault # "timer") THEN ArmRound(e, s)
               ELSE GiveUp(e, s)))

(* finish, the end of every entry point of the connector: the stack is     *)
(* told once.                                                              *)
Finish(x, s, fault) ==
    With(x, LAMBDA y :
       IF y.slot[s].c.status \in {"done", "failed"} THEN ConnDone(y, s, fault) ELSE y)

(* Mutant: the replacement's slot does not carry the dead session's id. *)
ReplacementUnseeded(x, s, id, fault) ==
    IF fault = "alloc" THEN [x EXCEPT !.past.gaveup = TRUE]
    ELSE With(SlotNew(x, s, Nil, TRUE), LAMBDA y :
       IF CanArmRound(y, s, fault # "timer") THEN ArmRound(y, s) ELSE GiveUp(y, s))
(* stack_schedule_replacement: the dead session's id stays out of use. *)
Replacement(x, s, id, fault) ==
    IF fault = "alloc" THEN [x EXCEPT !.past.gaveup = TRUE]
    ELSE With([SlotNew(x, s, Nil, TRUE) EXCEPT !.slot[s].id = id], LAMBDA y :
       IF CanArmRound(y, s, fault # "timer") THEN ArmRound(y, s) ELSE GiveUp(y, s))

(* stack_on_broken. *)
StackOnBroken(x, s, fault) ==
    With(SlotDestroy(Ended(x, s), s), LAMBDA y :
       IF x.slot[s].shared THEN Replacement(y, s, x.slot[s].id, fault) ELSE y)

-----------------------------------------------------------------------------
(* Opening and closing. *)

StackId == <<Nil, 0>>

(* cloak_client_stack_close: listener, piper, then the slots. *)
Closed(x) ==
    With(PiperDestroy([x EXCEPT
            !.ledger = CloseFd(Cancel(@, {"listener"}, StackId), StackId)]),
         LAMBDA y : FoldLeft(SlotDestroy, y, SetToSeq(DOMAIN y.slot)))

(* What fails while nothing is held: the configuration's checks, the probe *)
(* of the session template, the remote address, the piper.                 *)
EarlyStages == {"config", "template", "resolve", "piper"}
(* Then the piper is there, the listener, and the first round of a shared  *)
(* session.                                                                *)
OpenPiper(x) == [x EXCEPT !.piper.ready = TRUE]
OpenLocal(x) == [x EXCEPT !.ledger = Register(OpenFd(@, StackId),
                                              "listener", StackId)]
OpenFirst(x, s, id, started) ==
    IF Singleplex THEN x ELSE StartRound(SlotNew(x, s, Nil, TRUE), s, id, started)
(* cloak_client_stack_open: a stage that fails closes what came before. *)
Open ==
    /\ up = "none"
    /\ \E failing \in EarlyStages \cup {"listen", "first", "none"},
          s \in FreeSlots(State), id \in PickSessionId(State) :
          LET reached == IF failing \in EarlyStages THEN State
                         ELSE IF failing = "listen" THEN OpenPiper(State)
                         ELSE OpenFirst(OpenLocal(OpenPiper(State)), s, id,
                                        failing = "none")
          IN IF failing = "none" THEN Becomes(reached) /\ up' = "open"
             ELSE Becomes(Closed(reached)) /\ up' = "closed"

Close == up = "open" /\ Becomes(Closed(State)) /\ up' = "closed"

-----------------------------------------------------------------------------
(* The connector's callbacks. *)

Runs == up = "open" /\ UNCHANGED up
Armed(kind, id) == <<kind, id>> \in ledger.regs

Kickoff(s) ==
    /\ Runs /\ Armed("kickoff", s)
    /\ \E ways \in [Conns -> DialWays], fault \in {"none", "timer"} :
          Becomes(Finish(OnKickoff(State, s, ways, fault # "timer"), s, fault))
Retry(s, i) ==
    /\ Runs /\ Armed("retry", <<s, i>>)
    /\ \E way \in DialWays, fault \in {"none", "timer"} :
          Becomes(Finish(OnRetry(State, s, i, way, fault # "timer"), s, fault))
DialEvent(s, i) ==
    /\ Runs
    /\ \E kind \in DialKinds : Armed(kind, <<s, i>>) /\
       \E success \in DialEnds(kind), hs \in {"ok", "init", "start"},
          fault \in {"none", "timer"} :
          Becomes(Finish(OnDialDone(State, s, i, success, hs, fault # "timer"),
                         s, fault))
HandshakeEnds(s, i) ==
    /\ Runs /\ Armed("hs_fd", <<s, i>>)
    /\ \E key \in SessionKeys, built \in {"ok", "init", "add"},
          fault \in {"none", "timer", "watch"} :
          Becomes(Finish(OnHandshakeDone(State, s, i, key, built, TRUE), s, fault))
HandshakeFails(s, i) ==
    /\ Runs /\ Armed("hs_deadline", <<s, i>>)
    /\ \E fault \in {"none", "timer"} :
          Becomes(Finish(OnHandshakeDone(State, s, i, Nil, "ok", fault # "timer"),
                         s, fault))

(* stack_retry_timer. *)
RoundTimer(s) ==
    /\ Runs /\ Armed("round", s)
    /\ LET fired == [State EXCEPT !.slot[s].timer = FALSE,
                                  !.ledger = Cancel(@, {"round"}, s)]
       IN \E y \in {fired}, id \in PickSessionId(State) :
             \/ Becomes(StartRound(y, s, id, TRUE))
             \/ Becomes(GiveUp(StartRound(y, s, id, FALSE), s))

-----------------------------------------------------------------------------
(* The sessions' callbacks. *)

(* A connection is lost, the peer closes, or nothing happens for too long: *)
(* the session closes, and reports it from the reactor.                    *)
SessionBreaks(s) ==
    /\ Runs /\ slot[s].sesh = "open" /\ Becomes(SessionClose(State, s))
(* piper_on_broken and its chain, stack_on_broken. *)
SessionReports(s) ==
    /\ Runs /\ slot[s].sesh = "closing"
    /\ \E fault \in {"none", "timer", "alloc"} :
          Becomes(StackOnBroken(OnBroken(State, s), s, fault))
ServerOpens(s) ==
    Runs /\ slot[s].sesh = "open" /\ Becomes(OnNewStream(State, s))
RelaysAreTold(s) ==
    /\ Runs /\ slot[s].sesh = "open"
    /\ \E ended \in SUBSET Relaying(State, s) :
          ended # {} /\ Becomes(Told(State, ended))

-----------------------------------------------------------------------------
(* The local connections' callbacks. *)

Accept(c) ==
    /\ Runs /\ ~Refuses(State)
    /\ \E fault \in {"none", "watch", "timer"} : Becomes(OnAccept(State, c, fault))

(* piper_on_local_readable: the peer is gone, or has sent its first bytes. *)
LocalEnds(c) == Runs /\ Armed("local", c) /\ Becomes(ConnTeardown(State, c))
LocalAsks(c) ==
    /\ Runs /\ Armed("local", c) /\ piper.conn[c].sesh = Nil
    /\ \E s \in FreeSlots(State) \cup {Nil}, id \in PickSessionId(State) :
          Becomes(BeginSession(State, c, s, id))
LocalSends(c) ==
    /\ Runs /\ Armed("local", c) /\ piper.conn[c].sesh # Nil
    /\ \E opened, wrote, armed \in BOOLEAN, rc \in {"ok", "full", "failed"} :
          Becomes(OpenStream(State, c, opened, rc, wrote, armed))
StartTimer(c) ==
    /\ Runs /\ Armed("start", c)
    /\ \E wrote, armed \in BOOLEAN, rc \in {"ok", "full", "failed"} :
          Becomes(OnStartTimer(State, c, rc, wrote, armed))
Deadline(c) == Runs /\ Armed("deadline", c) /\ Becomes(ConnTeardown(State, c))
RelayEnds(c) == Runs /\ Armed("relay", c) /\ Becomes(OnRelayDone(State, c))

-----------------------------------------------------------------------------
Init == /\ up = "none" /\ slot = << >> /\ piper = NewPiper
        /\ ledger = NewLedger /\ past = [gaveup |-> FALSE, prev |-> 0, collided |-> FALSE]

ConnectorStep(s) == \/ Kickoff(s) \/ RoundTimer(s)
                    \/ \E i \in Conns : \/ Retry(s, i) \/ DialEvent(s, i)
                                        \/ HandshakeEnds(s, i)
                                        \/ HandshakeFails(s, i)
SlotNext == \E s \in DOMAIN slot :
               \/ ConnectorStep(s) \/ SessionBreaks(s) \/ SessionReports(s)
               \/ ServerOpens(s) \/ RelaysAreTold(s)
LocalNext == \/ \E c \in FreeCtx(State) : Accept(c)
             \/ \E c \in DOMAIN piper.conn :
                  \/ LocalEnds(c) \/ LocalAsks(c) \/ LocalSends(c)
                  \/ StartTimer(c) \/ Deadline(c) \/ RelayEnds(c)
Next == Open \/ Close \/ SlotNext \/ LocalNext

-----------------------------------------------------------------------------
(* Properties. *)

If(b, S) == IF b THEN S ELSE {}
Slots == DOMAIN slot
Locals == DOMAIN piper.conn
Pairs == Slots \X Conns
At(p) == slot[p[1]].c.conn[p[2]]

(* What the objects know of. *)
Regs ==
    UNION {If(slot[s].c.kickoff, {<<"kickoff", s>>})
             \cup If(slot[s].timer, {<<"round", s>>})
             \cup If(slot[s].sesh # "none", {<<"pool", s>>}) : s \in Slots}
      \cup UNION {If(At(p).retry, {<<"retry", p>>})
                    \cup If(At(p).stage = "hs", HsKinds \X {p}) : p \in Pairs}
      \cup UNION {If(piper.conn[c].watched, {<<"local", c>>})
                    \cup If(piper.conn[c].deadline, {<<"deadline", c>>})
                    \cup If(piper.conn[c].retry, {<<"start", c>>})
                    \cup If(piper.conn[c].relaying, {<<"relay", c>>}) : c \in Locals}
      \cup If(up = "open", {<<"listener", StackId>>})
Dialing == {p \in Pairs : At(p).stage = "dial"}
Fds == {p \in Pairs : At(p).fd} \cup Dialing \cup {s \in Slots : slot[s].sesh # "none"}
         \cup {c \in Locals : piper.conn[c].fd \/ piper.conn[c].relaying}
         \cup If(up = "open", {StackId})

(* Whatever fails, and in whatever order things end, every descriptor and  *)
(* every registration belongs to a live object that knows of it, and a     *)
(* closed client has none (conn_release, stack_slot_destroy,               *)
(* piper_conn_teardown, cloak_client_stack_close).                         *)
NothingStrays ==
    /\ ledger.fds = Fds
    /\ {r \in ledger.regs : r[1] \notin DialKinds} = Regs
    /\ {r[2] : r \in {q \in ledger.regs : q[1] \in DialKinds}} = Dialing

(* No pointer dangles: a local connection's session, the piper's and a     *)
(* slot's connection exist, and the slot that brings up a session for a    *)
(* connection and the connection that awaits it know each other            *)
(* (piper_on_broken, stack_cancel_session).                                *)
PointersAreLive ==
    /\ \A c \in Locals :
          LET s == piper.conn[c].sesh
          IN /\ s # Nil => s \in Slots /\ slot[s].sesh # "none"
             /\ piper.conn[c].awaiting <=> \E t \in Slots : slot[t].ctx = c
    /\ piper.sesh # Nil => piper.sesh \in Slots /\ slot[piper.sesh].sesh # "none"
    /\ \A s \in Slots : slot[s].ctx # Nil =>
          slot[s].ctx \in Locals /\ slot[s].state = "pending"

(* Nothing waits for nothing: a session being brought up has a timer or a  *)
(* connection that will call back, a local connection without a relay a    *)
(* deadline or a retry, a session of its own an owner until it closes; and *)
(* an open client has its shared session, up or on the way, unless it      *)
(* gave it up (retry_or_fail, stack_arm_round, stack_schedule_replacement, *)
(* piper_open_stream, piper_conn_teardown).                                *)
NothingIsForgotten ==
    /\ \A s \in Slots :
          /\ slot[s].state = "pending" =>
                \/ slot[s].timer \/ slot[s].c.kickoff
                \/ \E i \in Conns : \/ slot[s].c.conn[i].retry
                                    \/ slot[s].c.conn[i].stage \in {"dial", "hs"}
          /\ slot[s].sesh = "open" /\ ~slot[s].shared => Owner(State, s) # {}
    /\ \A c \in Locals :
          \/ piper.conn[c].deadline \/ piper.conn[c].retry \/ piper.conn[c].relaying
    /\ up = "open" /\ ~Singleplex /\ ~past.gaveup => \E s \in Slots : slot[s].shared

(* The server attaches a connection to the session whose id it names.  So  *)
(* no two sessions of the client, up or on the way, have one id, and the   *)
(* shared one is brought up under another id than the session that broke,  *)
(* or the round that failed, just before it, unless all draws of an id     *)
(* collided; an admin session has id 0 (stack_pick_session_id,             *)
(* stack_schedule_replacement).                                            *)
Carries(s) == slot[s].sesh # "none" \/ slot[s].c.status # "none"
IdsAreFresh ==
    IF AdminSession THEN \A s \in Slots : Carries(s) => slot[s].id = 0
    ELSE past.collided \/
         /\ \A s, t \in Slots : s # t => slot[s].id # slot[t].id
         /\ \A s \in Slots : slot[s].shared /\ Carries(s) => slot[s].id # past.prev

(* Some slot is being brought up. *)
Pending == \E s \in Slots : slot[s].state = "pending"
=============================================================================
