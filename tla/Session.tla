------------------------------ MODULE Session ------------------------------
(***************************************************************************)
(* cloak_session_t (libcloak-mux/src/session.c) over its connection pool   *)
(* (switchboard.c): the life of streams, who owns their memory, and the    *)
(* two-step deferred teardown.                                             *)
(*                                                                         *)
(* The code is single-threaded but re-entrant: a frame handed to the pool  *)
(* can break it, or drain it and call on_writable, while a call on the     *)
(* same session is still on the stack.  stack holds the calls in progress; *)
(* the owner acts when the stack is empty or a callback of its own is on   *)
(* top.  What a frame carries is reduced to its kind.                      *)
(***************************************************************************)
EXTENDS Integers, Sequences, FiniteSets

CONSTANTS Ids,          \* stream ids
          MaxObjs,      \* bound: stream entries ever allocated
          MaxDepth,     \* bound: nested calls
          OwnerOpens,   \* the owner opens streams (a client does)
          PeerIds       \* ids of the streams the peer opens

SessionAssumption ==
    /\ Ids \subseteq Nat \ {0} /\ IsFiniteSet(Ids)
    /\ PeerIds \subseteq Ids
    /\ MaxObjs \in Nat \ {0} /\ MaxDepth \in Nat \ {0}
    /\ OwnerOpens \in BOOLEAN

VARIABLES
    session,              \* "up" or "destroyed"
    closed, active_stream_count, next_stream_id,
    streams,              \* the stream table: Absent, Tombstone or an entry
    obj,                  \* obj[o]: a stream entry and its memory
    sb,                   \* the pool: broken, and whether it has connections
    timers,               \* the session's timers pending in the reactor
    teardown_timer_id,    \* which of them the handle names
    on_broken,            \* history: calls of on_broken
    stack                 \* the calls in progress, innermost first

vars == <<session, closed, active_stream_count, next_stream_id, streams, obj,
          sb, timers, teardown_timer_id, on_broken, stack>>
life == <<session, closed, timers, teardown_timer_id, on_broken>>
table == <<active_stream_count, next_stream_id, streams, obj>>

Objs == 1..MaxObjs
Absent == 0
Tombstone == -1
ActiveIds == {i \in Ids : streams[i] \in Objs}

Calls == [op : {"write", "close", "release", "sclose", "on_writable",
                "on_broken"},
          o : Objs \cup {0}, sent : BOOLEAN]

TypeOK ==
    /\ session \in {"up", "destroyed"} /\ closed \in BOOLEAN
    /\ active_stream_count \in 0..MaxObjs /\ next_stream_id \in Nat
    /\ streams \in [Ids -> Objs \cup {Absent, Tombstone}]
    /\ obj \in [Objs -> [id : Ids \cup {0}, retired : BOOLEAN,
                         mem : {"unused", "live", "freed"}, held : BOOLEAN]]
    /\ sb \in [broken : BOOLEAN, conns : BOOLEAN]
    /\ timers \subseteq {"inactivity", "deferred", "sweep"}
    /\ teardown_timer_id \in {"none", "deferred", "sweep"}
    /\ on_broken \in Nat
    /\ stack \in Seq(Calls)

Init ==
    /\ session = "up" /\ closed = FALSE /\ active_stream_count = 0
    /\ next_stream_id = 1 /\ streams = [i \in Ids |-> Absent]
    /\ obj = [o \in Objs |-> [id |-> 0, retired |-> FALSE, mem |-> "unused",
                              held |-> FALSE]]
    /\ sb = [broken |-> FALSE, conns |-> FALSE]
    /\ timers = {"inactivity"} /\ teardown_timer_id = "none"
    /\ on_broken = 0 /\ stack = <<>>

Top == stack[1]
Idle == stack = <<>>
Running(op) == ~Idle /\ Top.op = op
(* The owner's code runs: between events, or inside one of its callbacks. *)
OwnerRuns == ~(~Idle /\ Top.op \notin {"on_writable", "on_broken"})
Push(op, o) == stack' = <<[op |-> op, o |-> o, sent |-> FALSE]>> \o stack
SentTop == [stack EXCEPT ![1].sent = TRUE]
OnStack(o) == \E n \in 1..Len(stack) : stack[n].o = o
Fresh(o) == /\ obj[o].mem = "unused"
            /\ \A p \in 1..o - 1 : obj[p].mem # "unused"
MayUse(o) == obj[o].held /\ OwnerRuns /\ Len(stack) < MaxDepth

----------------------------------------------------------------------------
(* Pieces of session.c. *)

(* Mutant: a stream that is already retired is retired again. *)
RetireStreamAgain(o) ==
    /\ streams' = [streams EXCEPT ![obj[o].id] = Tombstone]
    /\ active_stream_count' = active_stream_count - 1
    /\ timers' = IF active_stream_count = 1 /\ ~closed
                 THEN timers \cup {"inactivity"} ELSE timers
(* session_retire_stream; the caller sets the entry's retired flag. *)
RetireStream(o) ==
    IF obj[o].retired
    THEN UNCHANGED <<streams, active_stream_count, timers>>
    ELSE /\ streams' = [streams EXCEPT ![obj[o].id] = Tombstone]
         /\ active_stream_count' = active_stream_count - 1
         /\ timers' = IF active_stream_count = 1 /\ ~closed
                      THEN timers \cup {"inactivity"} ELSE timers

(* session_passive_close: session_close_internal, then the teardown timer. *)
PassiveClose ==
    IF closed
    THEN UNCHANGED <<closed, timers, teardown_timer_id>>
    ELSE /\ closed' = TRUE
         /\ timers' = (timers \ {"inactivity"}) \cup {"deferred"}
         /\ teardown_timer_id' = "deferred"

Active(o) == obj[o].mem = "live" /\ ~obj[o].retired

(* session_free_all_active_streams and cloak_switchboard_close_all. *)
FreeAllActive ==
    /\ obj' = [o \in Objs |-> IF \E i \in Ids : streams[i] = o
                              THEN [obj[o] EXCEPT !.mem = "freed"] ELSE obj[o]]
    /\ streams' = [i \in Ids |-> IF streams[i] \in Objs THEN Tombstone
                                 ELSE streams[i]]
    /\ active_stream_count' = active_stream_count - Cardinality(ActiveIds)
    /\ sb' = [sb EXCEPT !.conns = FALSE]

(* A new entry o for stream id i, in the table and in the owner's hands. *)
Entry(i, retired) ==
    [id |-> i, retired |-> retired, mem |-> "live", held |-> TRUE]

----------------------------------------------------------------------------
(* Calls of the owner. *)

AddConn ==
    /\ OwnerRuns /\ session = "up" /\ ~closed /\ ~sb.broken
    /\ sb' = [sb EXCEPT !.conns = TRUE]
    /\ UNCHANGED <<life, table, stack>>

(* cloak_session_open_stream; an id the peer took first makes              *)
(* cloak_strmtab_insert_active fail, and the id is spent all the same.     *)
OpenStream(o) ==
    /\ OwnerOpens /\ OwnerRuns /\ session = "up" /\ ~closed
    /\ next_stream_id \in Ids /\ Fresh(o)
    /\ next_stream_id' = next_stream_id + 1
    /\ IF streams[next_stream_id] \in Objs
       THEN UNCHANGED <<streams, obj, active_stream_count>>
       ELSE /\ streams' = [streams EXCEPT ![next_stream_id] = o]
            /\ obj' = [obj EXCEPT ![o] = Entry(next_stream_id, FALSE)]
            /\ active_stream_count' = active_stream_count + 1
    /\ UNCHANGED <<life, sb, stack>>

(* cloak_stream_write on a stream, up to its call of the sink.  Bound: a   *)
(* callback of the owner writes once, and sent records that it did.        *)
WriteStream(o) ==
    /\ MayUse(o) /\ session = "up" /\ ~(~Idle /\ Top.sent)
    /\ stack' = <<[op |-> "write", o |-> o, sent |-> FALSE]>>
                    \o (IF Idle THEN <<>> ELSE SentTop)
    /\ UNCHANGED <<life, table, sb>>

(* cloak_session_close_stream, up to the closing frame. *)
CloseStream(o) ==
    /\ MayUse(o) /\ session = "up" /\ ~closed /\ ~obj[o].retired
    /\ Push("close", o)
    /\ UNCHANGED <<life, table, sb>>

(* cloak_session_release_stream, from ordinary code or from a callback;    *)
(* the owner's pointer is gone from here on.  A retired stream is freed at *)
(* once, another one is closed first.  The owner's part of the contract:   *)
(* no stream is released under a call that is still using it.              *)
ReleaseStream(o) ==
    /\ MayUse(o) /\ ~OnStack(o)
    /\ IF obj[o].retired
       THEN /\ obj' = [obj EXCEPT ![o].held = FALSE, ![o].mem = "freed"]
            /\ UNCHANGED stack
       ELSE /\ obj' = [obj EXCEPT ![o].held = FALSE]
            /\ Push("release", o)
    /\ UNCHANGED <<life, active_stream_count, next_stream_id, streams, sb>>

(* cloak_session_close, up to its closing frame. *)
CloseSession ==
    /\ OwnerRuns /\ session = "up" /\ ~closed /\ Len(stack) < MaxDepth
    /\ closed' = TRUE /\ timers' = timers \ {"inactivity"}
    /\ Push("sclose", 0)
    /\ UNCHANGED <<session, teardown_timer_id, on_broken, table, sb>>

(* The timers cloak_session_destroy cancels, by the handles it has. *)
DestroyCancels == {"inactivity", teardown_timer_id}
(* cloak_session_destroy, from ordinary code or from on_broken; the owner  *)
(* gives up the active streams, which are freed.                           *)
Destroy ==
    /\ session = "up" /\ (Idle \/ (Running("on_broken") /\ Len(stack) = 1))
    /\ session' = "destroyed" /\ closed' = TRUE
    /\ timers' = timers \ DestroyCancels
    /\ teardown_timer_id' = "none"
    /\ obj' = [o \in Objs |-> IF \E i \in Ids : streams[i] = o
                              THEN [obj[o] EXCEPT !.mem = "freed",
                                                  !.held = FALSE]
                              ELSE obj[o]]
    /\ streams' = [i \in Ids |-> Absent]
    /\ active_stream_count' = 0
    /\ sb' = [broken |-> FALSE, conns |-> FALSE]
    /\ stack' = <<>>
    /\ UNCHANGED <<next_stream_id, on_broken>>

----------------------------------------------------------------------------
(* The sink: cloak_switchboard_send hands the frame to a connection.       *)

Sending == ~Idle /\ Top.op \in {"write", "close", "release", "sclose"}
                 /\ ~Top.sent

(* The frame is queued, or the pool is broken or empty and it is dropped. *)
SinkReturns ==
    /\ Sending /\ stack' = SentTop
    /\ UNCHANGED <<life, table, sb>>

(* Mutant: a broken pool frees the streams on the spot. *)
SinkBreaksInline ==
    /\ Sending /\ session = "up" /\ sb.conns /\ ~sb.broken
    /\ PassiveClose /\ FreeAllActive
    /\ stack' = SentTop
    /\ UNCHANGED <<session, on_broken, next_stream_id>>
(* The connection's hard cap or a write error breaks the pool. *)
SinkBreaks ==
    /\ Sending /\ session = "up" /\ sb.conns /\ ~sb.broken
    /\ sb' = [sb EXCEPT !.broken = TRUE]
    /\ PassiveClose
    /\ stack' = SentTop
    /\ UNCHANGED <<session, on_broken, table>>

(* The send empties a backed-up queue: on_writable runs inside the send. *)
SinkDrains ==
    /\ Sending /\ session = "up" /\ sb.conns /\ ~sb.broken
    /\ Len(stack) < MaxDepth
    /\ stack' = <<[op |-> "on_writable", o |-> 0, sent |-> FALSE]>> \o SentTop
    /\ UNCHANGED <<life, table, sb>>

OnWritableReturns ==
    /\ Running("on_writable") /\ stack' = Tail(stack)
    /\ UNCHANGED <<life, table, sb>>

----------------------------------------------------------------------------
(* What each call does once its frame was sent. *)

Return(op) == Running(op) /\ Top.sent /\ stack' = Tail(stack)

WriteReturns == Return("write") /\ UNCHANGED <<life, table, sb>>

CloseStreamReturns ==
    /\ Return("close")
    /\ RetireStream(Top.o)
    /\ obj' = [obj EXCEPT ![Top.o].retired = TRUE]
    /\ UNCHANGED <<session, closed, teardown_timer_id, on_broken,
                   next_stream_id, sb>>

ReleaseStreamReturns ==
    /\ Return("release")
    /\ RetireStream(Top.o)
    /\ obj' = [obj EXCEPT ![Top.o].retired = TRUE, ![Top.o].mem = "freed"]
    /\ UNCHANGED <<session, closed, teardown_timer_id, on_broken,
                   next_stream_id, sb>>

CloseSessionReturns ==
    /\ Return("sclose")
    /\ timers' = timers \cup {"deferred"} /\ teardown_timer_id' = "deferred"
    /\ UNCHANGED <<session, closed, on_broken, table, sb>>

----------------------------------------------------------------------------
(* Events of the reactor. *)

(* session_on_envelope for a stream the table knows; ends says that        *)
(* cloak_stream_feed_frame returned 1 or -1.  on_stream_data comes last.   *)
FrameForActive(i, ends) ==
    /\ Idle /\ session = "up" /\ sb.conns /\ ~closed /\ streams[i] \in Objs
    /\ IF ends
       THEN /\ RetireStream(streams[i])
            /\ obj' = [obj EXCEPT ![streams[i]].retired = TRUE]
       ELSE UNCHANGED <<streams, active_stream_count, timers, obj>>
    /\ UNCHANGED <<session, closed, teardown_timer_id, on_broken,
                   next_stream_id, sb, stack>>

Unknown(i) == streams[i] = Absent
(* The first frame of a stream: the entry is inserted, fed, retired if     *)
(* that frame already ended it, and handed to the owner by on_new_stream.  *)
FrameForNew(i, o, ends) ==
    /\ Idle /\ session = "up" /\ sb.conns /\ ~closed /\ i \in PeerIds
    /\ Unknown(i) /\ Fresh(o)
    /\ obj' = [obj EXCEPT ![o] = Entry(i, ends)]
    /\ IF ends
       THEN /\ streams' = [streams EXCEPT ![i] = Tombstone]
            /\ timers' = IF active_stream_count = 0
                         THEN timers \cup {"inactivity"} ELSE timers
            /\ UNCHANGED active_stream_count
       ELSE /\ streams' = [streams EXCEPT ![i] = o]
            /\ active_stream_count' = active_stream_count + 1
            /\ UNCHANGED timers
    /\ UNCHANGED <<session, closed, teardown_timer_id, on_broken,
                   next_stream_id, sb, stack>>

(* A closing-session frame. *)
SessionFrame ==
    /\ Idle /\ session = "up" /\ sb.conns /\ ~closed
    /\ PassiveClose
    /\ UNCHANGED <<session, on_broken, table, sb, stack>>

(* A connection fails; the pool reports it once. *)
ConnFails ==
    /\ Idle /\ session = "up" /\ sb.conns /\ ~sb.broken
    /\ sb' = [sb EXCEPT !.broken = TRUE]
    /\ PassiveClose
    /\ UNCHANGED <<session, on_broken, table, stack>>

(* A connection drains from the event loop. *)
ConnDrains ==
    /\ Idle /\ session = "up" /\ sb.conns /\ ~sb.broken
    /\ Push("on_writable", 0)
    /\ UNCHANGED <<life, table, sb>>

(* session_check_timeout; the timer that fired is no longer pending. *)
InactivityFires ==
    /\ Idle /\ "inactivity" \in timers
    /\ timers' = timers \ {"inactivity"}
    /\ IF active_stream_count = 0 /\ ~closed
       THEN closed' = TRUE /\ Push("sclose", 0)
       ELSE UNCHANGED <<closed, stack>>
    /\ UNCHANGED <<session, teardown_timer_id, on_broken, table, sb>>

(* session_deferred_teardown_cb: the sweep is armed before on_broken runs. *)
DeferredFires ==
    /\ Idle /\ "deferred" \in timers
    /\ timers' = (timers \ {"deferred"}) \cup {"sweep"}
    /\ teardown_timer_id' = "sweep"
    /\ on_broken' = on_broken + 1
    /\ Push("on_broken", 0)
    /\ UNCHANGED <<session, closed, table, sb>>

(* on_broken returns: the owner kept no pointer to an active stream. *)
OnBrokenReturns ==
    /\ Running("on_broken") /\ stack' = Tail(stack)
    /\ obj' = [o \in Objs |-> [obj[o] EXCEPT !.held = @ /\ obj[o].retired]]
    /\ UNCHANGED <<life, active_stream_count, next_stream_id, streams, sb>>

(* session_teardown_sweep_cb. *)
SweepFires ==
    /\ Idle /\ "sweep" \in timers
    /\ timers' = timers \ {"sweep"} /\ teardown_timer_id' = "none"
    /\ FreeAllActive
    /\ UNCHANGED <<session, closed, on_broken, next_stream_id, stack>>

----------------------------------------------------------------------------
Returns == WriteReturns \/ CloseStreamReturns \/ ReleaseStreamReturns
           \/ CloseSessionReturns \/ OnWritableReturns \/ OnBrokenReturns

Timers == InactivityFires \/ DeferredFires \/ SweepFires

Next ==
    \/ AddConn \/ CloseSession \/ Destroy
    \/ SinkReturns \/ SinkBreaks \/ SinkDrains \/ Returns \/ Timers
    \/ SessionFrame \/ ConnFails \/ ConnDrains
    \/ \E o \in Objs : OpenStream(o) \/ WriteStream(o) \/ CloseStream(o)
                       \/ ReleaseStream(o)
    \/ \E i \in Ids, ends \in BOOLEAN :
          FrameForActive(i, ends) \/ \E o \in Objs : FrameForNew(i, o, ends)

Spec == Init /\ [][Next]_vars

(* Every call and callback returns, and every pass of the event loop fires the  *)
(* timers that are due, whatever the owner does between passes.            *)
FairSpec == Spec /\ WF_vars(SinkReturns) /\ WF_vars(Returns)
                 /\ SF_vars(InactivityFires) /\ SF_vars(DeferredFires)
                 /\ SF_vars(SweepFires)

----------------------------------------------------------------------------
(* Properties. *)

(* A call in progress, which goes on to use its stream after the pool and  *)
(* the callbacks inside it return, finds that stream alive.                *)
CallsAreLive ==
    \A n \in 1..Len(stack) : stack[n].o # 0 => obj[stack[n].o].mem = "live"

(* No pointer in use dangles: calls in progress, the pointers the owner    *)
(* may still use and the table all name live streams, and no timer is left *)
(* to run on a destroyed session.                                          *)
NoDangling ==
    /\ CallsAreLive
    /\ \A o \in Objs : obj[o].held => obj[o].mem = "live"
    /\ \A i \in ActiveIds : Active(streams[i])
    /\ session = "destroyed" => timers = {}

(* No stream is forgotten: live memory is in the owner's hands, in a call  *)
(* that will free it, or in the table of a session still to be swept.      *)
NoLeak ==
    \A o \in Objs : obj[o].mem = "live" =>
        \/ obj[o].held
        \/ \E n \in 1..Len(stack) : stack[n] \in [op : {"release"}, o : {o},
                                                 sent : BOOLEAN]
        \/ o \in {streams[i] : i \in Ids} /\ "sweep" \in timers

(* The owner and the session agree on who frees a stream, through every    *)
(* nesting of calls, every order of closes, releases and teardowns, and    *)
(* releases from inside on_writable and on_broken: it is freed, once, and  *)
(* not before its last use.                                                *)
MemorySafe == TypeOK /\ NoDangling /\ NoLeak

(* active_stream_count, on which the inactivity close depends, counts the  *)
(* active entries of the table.                                            *)
CountIsExact == active_stream_count = Cardinality(ActiveIds)

(* An open session without streams always has its inactivity timer, and a  *)
(* session never closes itself for inactivity while it has a stream.       *)
IdleIsTimed ==
    session = "up" /\ ~closed /\ active_stream_count = 0 =>
        "inactivity" \in timers

(* The count drives the inactivity close: it is exact after any mix of the *)
(* four paths that retire a stream, and an idle session has its timer.     *)
(* Every way a session closes, re-entrant ones included, schedules exactly *)
(* one report: before on_broken ran it is due, and it runs at most once.   *)
Accounting ==
    /\ CountIsExact /\ IdleIsTimed
    /\ on_broken <= 1
    /\ on_broken = 1 => "deferred" \notin timers
    /\ session = "up" /\ closed /\ on_broken = 0 =>
          "deferred" \in timers \/ \E n \in 1..Len(stack) : stack[n].op = "sclose"
    /\ ~closed => on_broken = 0 /\ timers \subseteq {"inactivity"}

(* A session ends: one without streams closes unless a stream comes (duty  *)
(* 1), a closed one is reported to its owner unless the owner destroyed it *)
(* first (2), and every connection and stream it still owns is gone (3).   *)
Duty(i) == IF i = 1 THEN session = "up" /\ active_stream_count = 0 ELSE closed
Fulfilled(i) ==
    \/ session = "destroyed"
    \/ i = 1 /\ (closed \/ active_stream_count > 0)
    \/ i = 2 /\ on_broken = 1
    \/ i = 3 /\ ~sb.conns /\ ActiveIds = {}
=============================================================================
