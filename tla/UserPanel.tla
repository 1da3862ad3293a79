----------------------------- MODULE UserPanel -----------------------------
(***************************************************************************)
(* The users that are active on the server                                 *)
(* (libcloak-server/src/userpanel.c), each with the valve that counts the  *)
(* bytes of its sessions, and the cycle that settles those bytes in the    *)
(* database and ends the users the database wants ended.                   *)
(*                                                                         *)
(* The operators take and return a record s with                           *)
(*   s.reg, s.db   the registry and the database,                          *)
(*   s.panel       users (a function from the slots in use), queue (what   *)
(*                 is to be settled, by user id), timer (armed), breaking  *)
(*                 and destroyed (the session whose end is being reported, *)
(*                 and whether it was freed meanwhile),                    *)
(*   s.owners      the sessions that the proxy or the admin API has a      *)
(*                 context for: what on_session_closing takes away,        *)
(*   s.lost        a history: usage that was given up, by user id,         *)
(*   s.unbilled    a history: users whose closing frames nobody is charged *)
(*                 for.                                                    *)
(* A user is named by its slot, as a freed pointer would name whatever is  *)
(* there now.  outcome is how the database ends a cycle, if one runs.      *)
(***************************************************************************)
EXTENDS Registry, UserManager, SequencesExt

CONSTANTS CLOAK_USERPANEL_MAX_ACTIVE_USERS,
          Recorded            \* bound: the users whom s.unbilled is about
MaxQueuedUsers == 2 * CLOAK_USERPANEL_MAX_ACTIVE_USERS
PanelAssumption == CLOAK_USERPANEL_MAX_ACTIVE_USERS \in Nat \ {0}

Slots == 1..CLOAK_USERPANEL_MAX_ACTIVE_USERS

NewPanel == [users |-> <<>>, queue |-> <<>>, timer |-> TRUE,
             breaking |-> 0, destroyed |-> FALSE]

AddSat(a, b) == IF b > 0 /\ a > INT64_MAX - b THEN INT64_MAX ELSE a + b

(* Op(v), as LET would say it; v is computed once however often Op uses it. *)
With(v, Op(_)) == CHOOSE r \in {Op(w) : w \in {v}} : TRUE

InSlotOrder(S) == SetToSortSeq(S, <)

PanelFind(s, uid) ==
    {i \in DOMAIN s.panel.users : /\ s.panel.users[i].uid = uid
                                  /\ ~s.panel.users[i].terminating}

(* panel_new_user, and panel_index_add: the first free slot. *)
NewUser(s, uid, bypass) ==
    LET i == Min(Slots \ DOMAIN s.panel.users)
    IN [user |-> {i},
        s |-> [s EXCEPT !.panel.users =
                 (i :> [uid |-> uid, bypass |-> bypass, terminating |-> FALSE,
                        valve |-> Zero]) @@ @]]

NoUser(s) == [user |-> {}, s |-> s]
NoSlot(s) == DOMAIN s.panel.users = Slots

(* fault: the call of this handler that fails, or "none". *)
GetUser(s, uid, fault) ==
    IF PanelFind(s, uid) # {} THEN [user |-> PanelFind(s, uid), s |-> s]
    ELSE IF \/ NoSlot(s)
            \/ ~Authenticate(s.db, uid, fault # "db")
            \/ fault = "user"
         THEN NoUser(s) ELSE NewUser(s, uid, FALSE)

GetBypassUser(s, uid, fault) ==
    IF PanelFind(s, uid) # {} THEN [user |-> PanelFind(s, uid), s |-> s]
    ELSE IF NoSlot(s) \/ fault = "user" THEN NoUser(s) ELSE NewUser(s, uid, TRUE)

(* cloak_userpanel_user_valve: none for a user that is not metered. *)
UserValve(s, user) ==
    {i \in user : ~s.panel.users[i].bypass}

(* panel_queue_slot: the entry of uid, or room for one. *)
HasQueueSlot(panel, uid) ==
    \/ uid \in DOMAIN panel.queue
    \/ Cardinality(DOMAIN panel.queue) < MaxQueuedUsers

Queued(panel, uid) ==
    IF uid \in DOMAIN panel.queue THEN panel.queue[uid] ELSE Zero

(* panel_drain_user once a forced cycle, if any, has run: valve to queue.  *)
(* Without room the usage stays in the valve, which a terminating user     *)
(* takes along.                                                            *)
DrainUser(s, i, from_terminate) ==
    LET u == s.panel.users[i]
        q == Queued(s.panel, u.uid)
    IN IF u.bypass THEN s
       ELSE IF HasQueueSlot(s.panel, u.uid)
            THEN [s EXCEPT
                    !.panel.users[i].valve = Zero,
                    !.panel.queue =
                       (u.uid :> [up |-> AddSat(q.up, u.valve.up),
                                  down |-> AddSat(q.down, u.valve.down)]) @@ @]
            ELSE IF from_terminate
                 THEN [s EXCEPT !.lost[u.uid] = Plus(@, u.valve)]
                 ELSE s

(* panel_on_session_closing, for every session that is being closed. *)
OnSessionClosing(s, ids) ==
    [s EXCEPT !.panel.destroyed = @ \/ s.panel.breaking \in ids,
              !.owners = @ \ {Key(s.reg.entry[id]) : id \in ids}]

(* A session that has a closing frame to send, and a connection for it. *)
Closable(e) == ~e.closing /\ e.conns > 0

(* The rest of cloak_userpanel_terminate after a forced cycle, if any.     *)
(* Closing the sessions sends frames; the valve counts them after it was   *)
(* drained, and goes with the user.                                        *)
FinishTerminate(s, i) ==
    LET uid == s.panel.users[i].uid
        open(reg) == {id \in AllOf(reg, uid) : Closable(reg.entry[id])}
        unbilled(d) == {u \in Recorded \cap {uid} :
                          ~d.panel.users[i].bypass /\ open(d.reg) # {}}
        Closed(d) == [OnSessionClosing(d, AllOf(d.reg, uid)) EXCEPT
                        !.reg = Free(@, AllOf(@, uid)),
                        !.unbilled = @ \cup unbilled(d),
                        !.panel.users = Restrict(@, DOMAIN @ \ {i})]
    IN With(DrainUser(s, i, TRUE), Closed)

MarkTerminating(s, i) == [s EXCEPT !.panel.users[i].terminating = TRUE]

(* cloak_userpanel_terminate called by a cycle, which forces no other. *)
TerminateInCycle(s, i) ==
    With(MarkTerminating(s, i), LAMBDA t : FinishTerminate(t, i))

HasQueuedUsage(panel, uid) == Queued(panel, uid) # Zero

(* A metered user that nothing would bring back to the panel's attention. *)
Reapable(s, i) ==
    LET u == s.panel.users[i]
    IN /\ ~u.bypass /\ ~u.terminating
       /\ CountForUid(s.reg, u.uid) = 0
       /\ ~HasQueuedUsage(s.panel, u.uid)
       /\ u.valve = Zero

(* A handler of one user, Op(t, i), for every user in S in turn. *)
ForEach(S, s, Op(_, _)) ==
    FoldLeft(LAMBDA t, i : With(t, LAMBDA v : Op(v, i)), s, InSlotOrder(S))

ReapSessionless(s) ==
    ForEach(DOMAIN s.panel.users, s,
            LAMBDA t, i : IF Reapable(t, i) THEN TerminateInCycle(t, i) ELSE t)

DrainAll(s) ==
    ForEach(DOMAIN s.panel.users, s,
            LAMBDA t, i : IF t.panel.users[i].terminating THEN t
                          ELSE DrainUser(t, i, FALSE))

(* panel_cycle_body: drain the users, settle the queue, end the users that *)
(* the database names, then those that nothing else would end.             *)
Settle(d, up) ==
    LET kept == [d EXCEPT !.db = up.db]
        told == [kept EXCEPT !.panel.queue = <<>>]
        ended == UNION {PanelFind(told, uid) : uid \in up.terminate}
    IN IF up.rc # 0 THEN kept ELSE ForEach(ended, told, TerminateInCycle)

RunCycle(s, outcome) ==
    With(DrainAll(s),
         LAMBDA d : With(IF d.panel.queue = <<>> THEN d
                         ELSE With(UploadStatus(d.db, d.panel.queue, outcome),
                                   LAMBDA up : Settle(d, up)),
                         ReapSessionless))

(* cloak_userpanel_terminate from outside a cycle: a full queue forces one *)
(* so that the last usage of the user has somewhere to go.                 *)
Terminate(s, i, outcome) ==
    LET u == s.panel.users[i]
        Made(m) == IF u.bypass \/ HasQueueSlot(m.panel, u.uid)
                   THEN m ELSE RunCycle(m, outcome)
    IN IF u.terminating THEN s
       ELSE With(Made(MarkTerminating(s, i)), LAMBDA t : FinishTerminate(t, i))

(* Mutant: not only the last session takes its user along. *)
NotifyAny(s, uid, outcome) ==
    With(s, LAMBDA t :
        LET user == PanelFind(t, uid)
        IN IF user = {} THEN t
           ELSE Terminate(t, CHOOSE i \in user : TRUE, outcome))

(* cloak_userpanel_notify_session_closed: the last session takes its user  *)
(* along.                                                                  *)
NotifySessionClosed(s, uid, outcome) ==
    With(s, LAMBDA t :
        LET user == PanelFind(t, uid)
        IN IF user = {} \/ CountForUid(t.reg, uid) > 0 THEN t
           ELSE Terminate(t, CHOOSE i \in user : TRUE, outcome))

(* cloak_userpanel_registry_broken: what the next in the chain is handed   *)
(* is the session id, or 0 if ending the user freed the session.           *)
RegistryBroken(s, id, uid, outcome) ==
    With(NotifySessionClosed([s EXCEPT !.panel.breaking = id,
                                       !.panel.destroyed = FALSE],
                             uid, outcome),
         LAMBDA n : [chained |-> IF n.panel.destroyed THEN 0 ELSE id,
                     s |-> [n EXCEPT !.panel.breaking = 0,
                                     !.panel.destroyed = FALSE]])

(* panel_upload_timer_cb; armed says whether the timer could be armed. *)
UploadTimer(s, outcome, armed) ==
    LET c == RunCycle([s EXCEPT !.panel.timer = FALSE], outcome)
    IN [c EXCEPT !.panel.timer = armed]

ClosePanel(s) ==
    [s EXCEPT !.panel.users = <<>>, !.panel.queue = <<>>, !.panel.timer = FALSE]
=============================================================================
