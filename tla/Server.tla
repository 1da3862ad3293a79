------------------------------- MODULE Server -------------------------------
(***************************************************************************)
(* The server of Cloak from an accepted connection to a session that has   *)
(* it: the dispatcher (libcloak-server/src/dispatcher.c) with the          *)
(* registry, the user panel and the user database under it, wired together *)
(* as libcloak-server/src/server_stack.c wires them.                       *)
(*                                                                         *)
(*   conns    the connections the dispatcher holds: reading a first        *)
(*            packet, writing a reply, dialing the cover site or relaying  *)
(*            to it                                                        *)
(*   srv      the record that UserPanel's operators work on, with          *)
(*            used (a history: what the valves counted, by user id) and    *)
(*            uaf (a freed session was handed to a callback)               *)
(*   up       the server runs: between cloak_server_stack_open and close   *)
(*                                                                         *)
(* A first packet that authenticates is a hello: who asks for which        *)
(* session, whether it has to be unordered, and whether the proxy method   *)
(* it names is configured.  Every other first packet is answered alike.    *)
(***************************************************************************)
EXTENDS UserPanel

CONSTANTS Conns,              \* names for the connections in the dispatcher
          MAX_PENDING_CONNS,  \* cfg.max_pending_conns
          Hellos,             \* the first packets that authenticate
          Bypass, Admin,      \* user ids: BypassUID and AdminUID of the config
          Rows,               \* the user database at the start
          MaxUsed,            \* bound: what a user's valve counts each way
          Perishable,         \* bound: whose rows may expire or be deleted
          MaxConns,           \* bound: the connections of a session
          Writes,             \* what the admin may write to a row
          Outcomes,           \* how the database may end a batch
          Faults,             \* which calls of on_readable may fail
          CanCreate,          \* bound: the stack may be opened again
          Waiting             \* users who left while uploads failed

VARIABLES conns, srv, up
vars == <<conns, srv, up>>

Uids == {h.uid : h \in Hellos} \cup DOMAIN Rows

(* What may come of the calls of on_readable: at most one fails on the way *)
(* to the reply, then the write goes one way or another; a redirect may    *)
(* find no cover site to dial.                                             *)
Writings == {"sent", "unattached", "again", "error"}
Chances == [fault : {"none"}, w : Writings, dialable : {TRUE}]
             \cup [fault : Faults \cup {"none"}, w : {"sent"}, dialable : BOOLEAN]

Paid(rows, uid) == IF uid \in DOMAIN rows THEN rows[uid].paid ELSE Zero

NewServer ==
    [reg |-> NewRegistry, panel |-> NewPanel, db |-> NewDb(FALSE, Rows),
     owners |-> {}, uaf |-> FALSE, deleted |-> {},
     used |-> [u \in Uids |-> Zero], lost |-> [u \in Uids |-> Zero],
     unbilled |-> {}]

NewConn == [stage |-> "reading", pending |-> TRUE, deadline |-> TRUE,
            created |-> FALSE, uid |-> Admin, sid |-> 0]

-----------------------------------------------------------------------------
(* The dispatcher's handlers, on a record x = [conns, srv]. *)

IsBypass(uid) == uid \in Bypass \cup {Admin}
IsAdmin(h) == h.uid = Admin /\ h.sid = 0

Pending(cs) == {c \in DOMAIN cs : cs[c].pending}

ReleaseUser(s, uid, outcome) == NotifySessionClosed(s, uid, outcome)

SessionNotAborted(s, uid, sid) == s

(* stack_session_aborted: the proxy and the admin API forget the session. *)
SessionAborted(s, uid, sid) == [s EXCEPT !.owners = @ \ {<<uid, sid>>}]

ConnUnlink(x, c) == [x EXCEPT !.conns = Restrict(@, DOMAIN @ \ {c})]

AbandonNothing(s, k, outcome) == s

(* conn_teardown: the connection that created a session takes it down if   *)
(* no connection ever joined it.                                           *)
AbandonSession(s, k, outcome) ==
    LET found == FindLive(s.reg, k.uid, k.sid)
        gone == SessionAborted(s, k.uid, k.sid)
        closed == [gone EXCEPT !.reg = Close(@, k.uid, k.sid)]
    IN IF k.created /\ \E id \in found : s.reg.entry[id].conns = 0
       THEN ReleaseUser(closed, k.uid, outcome)
       ELSE s

ConnTeardown(x, c, outcome) ==
    [x EXCEPT !.srv = AbandonSession(@, x.conns[c], outcome)]

ConnDrop(x, c, outcome) == ConnUnlink(ConnTeardown(x, c, outcome), c)

(* conn_start_redirect: dialable says whether the cover site has an        *)
(* address and cloak_dial_start took it.                                   *)
StartRedirect(x, c, dialable, outcome) ==
    IF dialable
    THEN [x EXCEPT !.conns[c].deadline = FALSE, !.conns[c].stage = "dialing"]
    ELSE ConnDrop(x, c, outcome)

-----------------------------------------------------------------------------
(* dispatcher_authenticate, once the hello is decrypted: a record with the *)
(* new state of the server, whether it is accepted, and whether the        *)
(* connection created the session.                                         *)
Refused(s) == [srv |-> s, ok |-> FALSE, created |-> FALSE]
Accepted(s, created) == [srv |-> s, ok |-> TRUE, created |-> created]

AuthUser(s, h, fault) ==
    IF IsBypass(h.uid) THEN GetBypassUser(s, h.uid, fault)
                       ELSE GetUser(s, h.uid, fault)

(* The reply cannot be composed: a session just created goes with it. *)
ComposeReply(s, h, created, fault, outcome) ==
    LET gone == SessionAborted(s, h.uid, h.sid)
        closed == [gone EXCEPT !.reg = Close(@, h.uid, h.sid)]
    IN IF fault = "compose"
       THEN Refused(ReleaseUser(IF created THEN closed ELSE s, h.uid, outcome))
       ELSE Accepted(s, created)

AuthJoin(s, h, id, fault, outcome) ==
    IF s.reg.entry[id].unordered # h.unordered
    THEN Refused(ReleaseUser(s, h.uid, outcome))
    ELSE ComposeReply(s, h, FALSE, fault, outcome)

AuthCreate(s, h, user, fault, outcome) ==
    LET valve == UserValve(s, user)
        cap == \/ valve = {}
               \/ AuthoriseNewSession(s.db, h.uid, CountForUid(s.reg, h.uid),
                                      fault # "db")
        p == [s EXCEPT !.owners = @ \cup {<<h.uid, h.sid>>}]
        cfg == [unordered |-> h.unordered,
                user |-> IF valve = {} THEN 0 ELSE CHOOSE i \in valve : TRUE]
        g == GetOrCreate(p.reg, h.uid, h.sid, cfg, fault # "init")
    IN IF ~cap \/ fault = "prepare"
       THEN Refused(ReleaseUser(s, h.uid, outcome))
       ELSE IF g.found = {}
       THEN Refused(ReleaseUser(SessionAborted(p, h.uid, h.sid), h.uid, outcome))
       ELSE ComposeReply([p EXCEPT !.reg = g.reg], h, g.created, fault, outcome)

DispatcherAuthenticate(s, h, fault, outcome) ==
    LET g == AuthUser(s, h, fault)
        found == FindLive(g.s.reg, h.uid, h.sid)
    IN IF g.user = {} THEN Refused(s)
       ELSE IF ~IsAdmin(h) /\ ~h.method
       THEN Refused(ReleaseUser(g.s, h.uid, outcome))
       ELSE IF found # {}
       THEN AuthJoin(g.s, h, CHOOSE id \in found : TRUE, fault, outcome)
       ELSE AuthCreate(g.s, h, g.user, fault, outcome)

-----------------------------------------------------------------------------
(* conn_handoff: the session is looked up again, for the reply may have    *)
(* taken long enough to lose it.  attaches: there was memory for it.       *)
Handoff(x, c, attaches, outcome) ==
    LET k == x.conns[c]
        open == {id \in FindLive(x.srv.reg, k.uid, k.sid) :
                    /\ ~x.srv.reg.entry[id].closing
                    /\ x.srv.reg.entry[id].conns < MaxConns}
    IN IF open = {} \/ ~attaches THEN ConnDrop(x, c, outcome)
       ELSE ConnUnlink([x EXCEPT !.srv.reg.entry[CHOOSE id \in open : TRUE].conns
                          = @ + 1], c)

(* conn_continue_reply_write: w is what comes of it. *)
ContinueReplyWrite(x, c, w, outcome) ==
    CASE w \in {"sent", "unattached"} -> Handoff(x, c, w = "sent", outcome)
      [] w = "again" -> [x EXCEPT !.conns[c].stage = "writing"]
      [] w = "error" -> ConnDrop(x, c, outcome)

(* The deadline is armed again for the reply. *)
RearmForgotten(k) == [k EXCEPT !.deadline = FALSE]
RearmDeadline(k) == [k EXCEPT !.deadline = TRUE]

(* conn_on_firstpacket_done *)
FirstPacketDone(x, c, h, o, outcome) ==
    LET a == DispatcherAuthenticate(x.srv, h, o.fault, outcome)
        k == [x.conns[c] EXCEPT !.deadline = FALSE, !.created = a.created,
                                !.uid = h.uid, !.sid = h.sid]
        y == [x EXCEPT !.srv = a.srv, !.conns[c] = RearmDeadline(k)]
    IN IF ~a.ok
       THEN StartRedirect([x EXCEPT !.srv = a.srv], c, o.dialable, outcome)
       ELSE IF o.fault = "timer" THEN ConnDrop(y, c, outcome)
       ELSE ContinueReplyWrite(y, c, o.w, outcome)

-----------------------------------------------------------------------------
(* Actions. *)

State == [conns |-> conns, srv |-> srv]
Becomes(x) == /\ \E y \in {x} : conns' = y.conns /\ srv' = y.srv
              /\ UNCHANGED up

(* How a batch ends that a handler forces: only a user who is ended while   *)
(* the queue is full forces one.                                           *)
Forced == IF \A uid \in Uids : HasQueueSlot(srv.panel, uid)
          THEN {CHOOSE outcome \in Outcomes : TRUE} ELSE Outcomes

(* A server that runs for a while: the entries of the users in Waiting are *)
(* still in the queue.                                                     *)
Init == /\ conns = <<>> /\ up = TRUE
        /\ srv = [NewServer EXCEPT !.panel.queue = [u \in Waiting |-> Zero]]

(* cloak_dispatcher_accept, by a listener of the stack: refused at the cap,*)
(* dropped again if the timer or the descriptor cannot be registered.      *)
Accept(c) ==
    /\ up
    /\ c \notin DOMAIN conns
    /\ Cardinality(Pending(conns)) < MAX_PENDING_CONNS
    /\ Becomes([State EXCEPT !.conns = (c :> NewConn) @@ @])

(* on_readable with the whole first packet there. *)
ReadHello(c) ==
    /\ c \in DOMAIN conns /\ conns[c].stage = "reading"
    /\ \E h \in Hellos, o \in Chances, outcome \in Forced :
            Becomes(FirstPacketDone(State, c, h, o, outcome))

(* on_readable with a first packet that is malformed, replayed, stale or   *)
(* not for this server: nothing was created for it.                        *)
ReadOther(c) ==
    /\ c \in DOMAIN conns /\ conns[c].stage = "reading"
    /\ \E dialable \in BOOLEAN, outcome \in Forced :
            Becomes(StartRedirect(State, c, dialable, outcome))

(* on_readable, the peer gone before its first packet was whole. *)
PeerGone(c) ==
    /\ c \in DOMAIN conns /\ conns[c].stage = "reading"
    /\ \E outcome \in Forced : Becomes(ConnDrop(State, c, outcome))

(* on_readable, called for the writability asked for. *)
WriteReply(c) ==
    /\ c \in DOMAIN conns /\ conns[c].stage = "writing"
    /\ \E w \in Writings, outcome \in Forced :
            Becomes(ContinueReplyWrite(State, c, w, outcome))

OnDeadline(c) ==
    /\ c \in DOMAIN conns /\ conns[c].deadline
    /\ \E outcome \in Forced : Becomes(ConnDrop(State, c, outcome))

(* on_dial_done: no connection, no relay, or a relay that now owns both. *)
OnDialDone(c) ==
    /\ c \in DOMAIN conns /\ conns[c].stage = "dialing"
    /\ \/ \E outcome \in Forced : Becomes(ConnDrop(State, c, outcome))
       \/ Becomes(ConnUnlink(State, c))
       \/ Becomes([State EXCEPT !.conns[c].stage = "relaying",
                                !.conns[c].pending = FALSE])

OnRelayDone(c) ==
    /\ c \in DOMAIN conns /\ conns[c].stage = "relaying"
    /\ Becomes(ConnUnlink(State, c))

-----------------------------------------------------------------------------
(* What the sessions do, as far as this module sees it. *)

Set(s) == Becomes([State EXCEPT !.srv = s])

(* Bytes pass the valve of a session that has a connection, a dead one     *)
(* included: its connections go only with it.                              *)
Traffic(id) ==
    LET e == srv.reg.entry[id]
    IN /\ id \in Linked(srv.reg) /\ e.conns > 0 /\ e.user # 0
       /\ \E b \in {[up |-> 1, down |-> 0], [up |-> 0, down |-> 1]} :
            LET n == Plus(srv.used[e.uid], b)
            IN /\ n.up <= MaxUsed[e.uid].up /\ n.down <= MaxUsed[e.uid].down
               /\ Set([srv EXCEPT !.used[e.uid] = n,
                                  !.panel.users[e.user].valve = Plus(@, b)])

(* A connection of a session ends, and with the last one the session. *)
ConnLeaves(id) ==
    LET e == srv.reg.entry[id]
    IN /\ id \in Linked(srv.reg) /\ ~e.dead /\ e.conns > 0
       /\ Set([srv EXCEPT !.reg.entry[id].conns = @ - 1,
                          !.reg.entry[id].closing = @ \/ e.conns = 1])

(* The session is closed by its peer or by its inactivity timer. *)
SessionCloses(id) ==
    /\ id \in Linked(srv.reg) /\ ~srv.reg.entry[id].dead
    /\ ~srv.reg.entry[id].closing
    /\ Set([srv EXCEPT !.reg.entry[id].closing = TRUE])

(* registry_on_session_broken, with the chain that the stack wires: the    *)
(* proxy and the admin API forget the session, the panel its user if it    *)
(* was the last, then the owner of the stack is told.                      *)
OnSessionBroken(id) ==
    LET e == srv.reg.entry[id]
    IN /\ id \in Linked(srv.reg) /\ e.closing /\ ~e.dead
       /\ \E outcome \in Forced, armed \in BOOLEAN :
            \E b \in {RegistryBroken([SessionAborted(srv, e.uid, e.sid)
                                        EXCEPT !.reg = MarkDead(@, id)],
                                     id, e.uid, outcome)} :
              LET freed == b.chained # 0 /\ b.chained \notin Linked(b.s.reg)
              IN Set([b.s EXCEPT !.uaf = @ \/ freed,
                                 !.reg = ArmSweep(@, armed)])

OnSweepTimer ==
    /\ srv.reg.sweep_timer
    /\ Set([srv EXCEPT !.reg = SweepTimer(@)])

(* A timer that could not be armed again is one that never fires again,    *)
(* which Spec allows and FairSpec excludes.                                *)
OnUploadTimer ==
    /\ srv.panel.timer
    /\ \E outcome \in Outcomes : Set(UploadTimer(srv, outcome, TRUE))

(* The admin API writes or deletes a row; time passes the expiry of one. *)
Expires ==
    /\ up
    /\ \E uid \in Perishable \cap DOMAIN srv.db.row \cap DOMAIN srv.db.saved :
         Set([srv EXCEPT !.db.row[uid].expired = TRUE,
                         !.db.saved[uid].expired = TRUE])

AdminWrites ==
    /\ up
    /\ \E uid \in Perishable, new \in Writes :
         Set([srv EXCEPT !.db = Write(@, uid, new)])

AdminDeletes ==
    /\ up
    /\ \E uid \in Perishable \cap DOMAIN srv.db.row :
         Set([srv EXCEPT !.db = Delete(@, uid), !.deleted = @ \cup {uid}])

-----------------------------------------------------------------------------
(* cloak_server_stack_close: dispatcher, proxy and admin API, registry,    *)
(* panel.  Tearing a connection down may end its session and its user.     *)
DispatcherDestroy(x, outcome) ==
    FoldSet(LAMBDA c, y : ConnUnlink(ConnTeardown(y, c, outcome), c),
            x, DOMAIN x.conns)

StackClose(x, outcome) ==
    LET d == DispatcherDestroy(x, outcome)
        o == [d EXCEPT !.srv.owners = {}]
        r == [o EXCEPT !.srv.reg = Destroy(@)]
    IN [r EXCEPT !.srv = ClosePanel(@)]

StackCloses ==
    /\ up
    /\ \E outcome \in Outcomes :
         LET x == StackClose(State, outcome)
         IN conns' = x.conns /\ srv' = x.srv
    /\ up' = FALSE

(* cloak_server_stack_open again, on the database as it is on disk. *)
StackOpens ==
    /\ ~up /\ CanCreate
    /\ up' = TRUE
    /\ srv' = [NewServer EXCEPT
                 !.db = NewDb(FALSE, srv.db.saved),
                 !.deleted = srv.deleted,
                 !.used = [u \in Uids |-> Paid(srv.db.saved, u)]]
    /\ UNCHANGED conns

Next ==
    \/ \E c \in Conns :
         \/ Accept(c) \/ ReadHello(c) \/ ReadOther(c) \/ PeerGone(c)
         \/ WriteReply(c) \/ OnDeadline(c) \/ OnDialDone(c) \/ OnRelayDone(c)
    \/ \E id \in EntryIds :
         Traffic(id) \/ ConnLeaves(id) \/ SessionCloses(id) \/ OnSessionBroken(id)
    \/ OnSweepTimer \/ OnUploadTimer \/ Expires \/ AdminWrites \/ AdminDeletes
    \/ StackCloses \/ StackOpens

Spec == Init /\ [][Next]_vars

(* The reactor runs timers that are due: the deadlines, the reports of     *)
(* sessions that closed, the sweep and the upload.  A dial ends, by its    *)
(* own timeout at the latest.  The database does not fail for ever.        *)
UploadCommits == srv.panel.timer /\ Set(UploadTimer(srv, Committed, TRUE))

FairSpec ==
    /\ Spec
    /\ \A c \in Conns : WF_vars(OnDeadline(c)) /\ WF_vars(OnDialDone(c))
    /\ \A id \in EntryIds : WF_vars(OnSessionBroken(id))
    /\ WF_vars(OnSweepTimer)
    /\ SF_vars(UploadCommits)

-----------------------------------------------------------------------------
(* Properties. *)

Live == Linked(srv.reg) \ Dead(srv.reg)
LiveKeys == {Key(srv.reg.entry[id]) : id \in Live}
Active == {srv.panel.users[i].uid : i \in DOMAIN srv.panel.users}

TypeOK ==
    /\ up \in BOOLEAN
    /\ DOMAIN conns \subseteq Conns
    /\ \A c \in DOMAIN conns :
         /\ conns[c].stage \in {"reading", "writing", "dialing", "relaying"}
         /\ conns[c].pending = (conns[c].stage # "relaying")
         /\ conns[c].deadline = (conns[c].stage \in {"reading", "writing"})
    /\ Linked(srv.reg) \subseteq EntryIds
    /\ DOMAIN srv.panel.users \subseteq Slots
    /\ DOMAIN srv.panel.queue \subseteq Uids
    /\ Cardinality(DOMAIN srv.panel.queue) <= MaxQueuedUsers

(* A session that lookups find is the only one of its key, and exactly the *)
(* sessions that lookups find have a context in the proxy or the admin     *)
(* API: none is leaked by a session that failed to start or broke, and     *)
(* none is taken from a session of the same key that came after.           *)
OwnersMatch ==
    /\ Cardinality(LiveKeys) = Cardinality(Live)
    /\ srv.owners = LiveKeys

(* Every session still in memory, dead ones included, counts its bytes in  *)
(* the valve of its own user; a user is active exactly while it has a      *)
(* session; and no callback is handed a freed session.                     *)
ValvesAreLive ==
    /\ \A id \in Linked(srv.reg) :
         LET e == srv.reg.entry[id]
         IN e.user # 0 => /\ e.user \in DOMAIN srv.panel.users
                          /\ srv.panel.users[e.user].uid = e.uid
    /\ Active = {key[1] : key \in LiveKeys}
    /\ Cardinality(Active) = Cardinality(DOMAIN srv.panel.users)
    /\ ~srv.uaf

(* A session without connections is never left behind: it is about to      *)
(* report its end, or the connection it was created for is still being     *)
(* answered and takes it down if that fails.                               *)
NoOrphanSession ==
    \A id \in Live :
      LET e == srv.reg.entry[id]
      IN e.conns = 0 /\ ~e.closing =>
           \E c \in DOMAIN conns : /\ conns[c].created /\ conns[c].stage = "writing"
                                   /\ conns[c].uid = e.uid /\ conns[c].sid = e.sid

ValveOf(uid) ==
    LET u == {i \in DOMAIN srv.panel.users : srv.panel.users[i].uid = uid}
    IN IF u = {} THEN Zero ELSE srv.panel.users[CHOOSE i \in u : TRUE].valve

(* What a user's valve counted while its sessions were up is charged       *)
(* exactly once, still waiting, or given up by the end of a user who found *)
(* the queue full, whatever batches failed, were rolled back or left a     *)
(* transaction open (panel_drain_user, panel_run_cycle and the database's  *)
(* upload batch).  The frames that close the sessions of a user who is     *)
(* ended are outside it: nobody is charged for them, see below.            *)
UsageConserved ==
    up => \A uid \in DOMAIN Rows \ srv.deleted :
            srv.used[uid] =
              Plus(Plus(Paid(srv.db.saved, uid), Queued(srv.panel, uid)),
                   Plus(ValveOf(uid), srv.lost[uid]))

Barred(db, uid) == uid \notin DOMAIN db.saved \/ ~CheckGates(db.saved[uid])

(* Nothing is given up without need.  Usage is lost only when the queue is *)
(* full of other users and nothing could be settled to make room: never by *)
(* a user whom a cycle ends, the one a full queue forces included.  And    *)
(* only a user whom the database has barred is ended while a session is    *)
(* up, so that only such users' closing frames go unbilled                 *)
(* (cloak_userpanel_terminate, panel_drain_user, panel_cycle_body).        *)
LossesAreExcused ==
    [][up' =>
         /\ srv'.lost # srv.lost =>
               /\ Cardinality(DOMAIN srv'.panel.queue) = MaxQueuedUsers
               /\ DOMAIN srv.panel.queue \subseteq DOMAIN srv'.panel.queue
               /\ srv'.db.saved = srv.db.saved
         /\ \A id \in Linked(srv.reg) :
               Closable(srv.reg.entry[id]) /\ id \notin Linked(srv'.reg) =>
                  Barred(srv'.db, srv.reg.entry[id].uid)
         /\ \A uid \in srv'.unbilled \ srv.unbilled : Barred(srv'.db, uid)]_vars

(* Every connection leaves the pending ones, which are capped, by being    *)
(* handed to a session, relayed or dropped, though its peer never sends a  *)
(* byte or never reads the reply: the deadline, the dial's end and the     *)
(* deadline armed again for the reply cover all of its stages.             *)
PendingEnds ==
    \A c \in Conns : (c \in Pending(conns)) ~> (c \notin Pending(conns))

(* A session that closed gives its place in the table back. *)
ClosedSessionsGo ==
    \A id \in EntryIds :
        (id \in Linked(srv.reg) /\ srv.reg.entry[id].closing)
          ~> (id \notin Linked(srv.reg))

(* A user whose credit ran out, who expired or was deleted does not stay,  *)
(* idle or not, even if batches fail or the queue is full for a while.     *)
BarredUsersEnd ==
    \A uid \in DOMAIN Rows :
        (uid \in Active /\ Barred(srv.db, uid))
          ~> (uid \notin Active \/ ~Barred(srv.db, uid))
=============================================================================
