------------------------------- MODULE Proxy --------------------------------
(***************************************************************************)
(* The proxy of the server (libcloak-server/src/proxy.c): every stream a   *)
(* session opens is dialed to the session's upstream and spliced with it.  *)
(*                                                                         *)
(*   proxy    contexts by session, and what the proxy keeps by stream      *)
(*   ledger   the descriptors and registrations of those streams (Ledger)  *)
(*   sesh     the sessions of the registry: the streams each one handed    *)
(*            out and did not get back                                     *)
(*   stack    handlers in progress.  Giving a stream back sends a closing  *)
(*            frame; that may empty a connection's queue, and the session  *)
(*            reports room (on_writable) before the frame's sender returns *)
(*                                                                         *)
(* A relay is what StreamRelay and DgramRelay promise of it: it starts, or *)
(* finds the pool full, or fails; it may end at any event or notification, *)
(* and then closes its descriptor.                                         *)
(***************************************************************************)
EXTENDS Ledger

CONSTANTS Keys,               \* the sessions, by user and session id
          StreamIds,          \* addresses for streams, used again once free
          MAX_PER_SESSION,    \* cfg.max_streams_per_session
          MAX_TOTAL,          \* cfg.max_streams_total
          MAX_RETRIES,        \* cfg.max_retries
          MaxNest             \* bound: reports of room inside one another

VARIABLES proxy, ledger, sesh, stack
vars == <<proxy, ledger, sesh, stack>>

NewProxy == [sess |-> << >>, stream |-> << >>, total_capped |-> FALSE]

State == [proxy |-> proxy, ledger |-> ledger, sesh |-> sesh, stack |-> stack]
Becomes(x) == \E y \in {x} :
    /\ proxy' = y.proxy /\ ledger' = y.ledger
    /\ sesh' = y.sesh /\ stack' = y.stack

-----------------------------------------------------------------------------
(* Lists and caps. *)

(* proxy_cap_low_water: how far a count must fall before its cap may be    *)
(* reported again.                                                         *)
CapLowWater(cap) ==
    LET h == IF cap \div 8 = 0 THEN 1 ELSE cap \div 8
    IN IF h >= cap THEN 0 ELSE cap - h

Count(p, k) == Len(p.sess[k].streams)
Total(p) == Cardinality(DOMAIN p.stream)

(* proxy_session_link, proxy_session_unlink. *)
SessionLink(p, k, ps) == [p EXCEPT !.sess = WithEntry(@, k, ps)]
SessionUnlink(p, k) == [p EXCEPT !.sess = Without(@, k)]

(* proxy_stream_link: at the head of its session's list. *)
StreamLink(p, id, pst) ==
    [p EXCEPT !.stream = WithEntry(@, id, pst),
              !.sess[pst.ps].streams = <<id>> \o @]

(* proxy_stream_unlink. *)
StreamUnlink(p, id) ==
    LET k == p.stream[id].ps
        q == [p EXCEPT !.stream = Without(@, id),
                       !.sess[k].streams = Remove(@, id)]
    IN [q EXCEPT
          !.sess[k].capped = @ /\ Count(q, k) > CapLowWater(MAX_PER_SESSION),
          !.total_capped = @ /\ Total(q) > CapLowWater(MAX_TOTAL)]

-----------------------------------------------------------------------------
(* Teardown. *)

NewStream(k) == [ps |-> k, stage |-> "new", retry |-> FALSE, retries |-> 0,
                 fd_pending |-> FALSE]

(* cloak_stream_relay_stop, cloak_dgram_relay_stop, or a relay's own end. *)
RelayStop(l, id) == CloseFd(Cancel(l, {"relay"}, id), id)

(* Mutant: a stream torn down while it waits to retry keeps its timer. *)
QuietNoRetry(l, s, id) ==
    IF s.stage = "dialing" THEN DialCancel(l, id)
    ELSE IF s.stage = "relaying" THEN RelayStop(l, id)
    ELSE IF s.fd_pending THEN CloseFd(l, id) ELSE l
(* proxy_stream_teardown up to the release of the stream: nothing will     *)
(* call back for it any more.                                              *)
Quiet(l, s, id) ==
    LET c == IF s.retry THEN Cancel(l, {"retry"}, id) ELSE l
        d == IF s.stage = "dialing" THEN DialCancel(c, id) ELSE c
        r == IF s.stage = "relaying" THEN RelayStop(d, id) ELSE d
    IN IF s.fd_pending THEN CloseFd(r, id) ELSE r

(* cloak_session_release_stream, then the stream is unlinked and freed. *)
Freed(x, id) ==
    [x EXCEPT !.sesh[x.proxy.stream[id].ps] = @ \ {id},
              !.proxy = StreamUnlink(@, id)]

(* The first half of proxy_stream_teardown.  The closing frame the release *)
(* sends is a point where room may be reported: the second half waits on   *)
(* the stack.                                                              *)
StreamTeardown(x, id) ==
    [x EXCEPT !.ledger = Quiet(@, x.proxy.stream[id], id),
              !.proxy.stream[id] = [NewStream(@.ps) EXCEPT !.stage = "ending"],
              !.stack = <<[op |-> "free", id |-> id, told |-> FALSE]>> \o @]

(* The same where the session takes no frame any more. *)
TeardownNow(x, id) ==
    Freed([x EXCEPT !.ledger = Quiet(@, x.proxy.stream[id], id)], id)

(* proxy_session_teardown. *)
SessionTeardown(x, k) ==
    LET quiet == FoldLeft(TeardownNow, [x EXCEPT !.proxy.sess[k].capped = FALSE],
                          x.proxy.sess[k].streams)
    IN [quiet EXCEPT !.proxy = SessionUnlink(@, k)]

-----------------------------------------------------------------------------
(* From the dial to the relay. *)

(* Mutant: a timer that cannot be added goes unnoticed. *)
RetryUnarmed(x, id, armed) ==
    IF x.proxy.stream[id].retries >= MAX_RETRIES THEN StreamTeardown(x, id)
    ELSE IF ~armed THEN [x EXCEPT !.proxy.stream[id].retries = @ + 1]
    ELSE [x EXCEPT !.proxy.stream[id].retries = @ + 1,
                   !.proxy.stream[id].retry = TRUE,
                   !.ledger = Register(@, "retry", id)]
(* The pool is full: try again later, MAX_RETRIES times; armed: the timer  *)
(* could be added.                                                         *)
Retry(x, id, armed) ==
    IF x.proxy.stream[id].retries >= MAX_RETRIES \/ ~armed
    THEN StreamTeardown(x, id)
    ELSE [x EXCEPT !.proxy.stream[id].retries = @ + 1,
                   !.proxy.stream[id].retry = TRUE,
                   !.ledger = Register(@, "retry", id)]

(* proxy_try_start_relay; rc is what the start of the relay returns. *)
TryStartRelay(x, id, rc, armed) ==
    CASE rc = "ok" ->
           [x EXCEPT !.proxy.stream[id].fd_pending = FALSE,
                     !.proxy.stream[id].stage = "relaying",
                     !.ledger = Register(@, "relay", id)]
      [] rc = "pool_full" -> Retry(x, id, armed)
      [] OTHER -> StreamTeardown(x, id)

(* proxy_on_dial_done. *)
DialDone(x, id, success, rc, armed) ==
    LET done == [x EXCEPT !.ledger = DialFinish(@, id, success),
                          !.proxy.stream[id].stage = "dialed"]
    IN IF ~success THEN StreamTeardown(done, id)
       ELSE TryStartRelay([done EXCEPT !.proxy.stream[id].fd_pending = TRUE,
                                       !.proxy.stream[id].retries = 0],
                          id, rc, armed)

(* proxy_on_new_stream; alloc: there was memory.  A stream the proxy does  *)
(* not take is given back inside the callback and leaves no trace.         *)
OnNewStream(x, k, id, alloc, way) ==
    LET b == [x EXCEPT !.proxy.sess[k].bound = TRUE]
        linked == [b EXCEPT !.proxy = StreamLink(@, id, NewStream(k)),
                            !.sesh[k] = @ \cup {id}]
    IN IF Total(x.proxy) >= MAX_TOTAL
       THEN [b EXCEPT !.proxy.total_capped = TRUE]
       ELSE IF Count(x.proxy, k) >= MAX_PER_SESSION
       THEN [b EXCEPT !.proxy.sess[k].capped = TRUE]
       ELSE IF ~alloc THEN b
       ELSE IF way = "failed" THEN StreamTeardown(linked, id)
       ELSE [linked EXCEPT !.ledger = DialStart(@, id, way, TRUE),
                           !.proxy.stream[id].stage = "dialing"]

-----------------------------------------------------------------------------
(* Handlers, each started by the event loop when no other runs. *)

Idle == stack = << >>
(* cloak_proxy_prepare_session, the registry having no session of the key; *)
(* then the registry makes the session.                                    *)
Prepare(k) ==
    /\ Idle /\ k \notin DOMAIN proxy.sess
    /\ proxy' = SessionLink(proxy, k, [streams |-> << >>, bound |-> FALSE,
                                       capped |-> FALSE])
    /\ \E made \in BOOLEAN :
          sesh' = IF made THEN WithEntry(sesh, k, {}) ELSE sesh
    /\ UNCHANGED <<ledger, stack>>

(* cloak_proxy_session_aborted: the session was not made, or no connection *)
(* ever joined it.                                                         *)
Aborted(k) ==
    /\ Idle /\ k \in DOMAIN proxy.sess /\ ~proxy.sess[k].bound
    /\ Becomes([SessionTeardown(State, k) EXCEPT !.sesh = Without(@, k)])

(* cloak_proxy_registry_broken: the session closed, and goes after this. *)
RegistryBroken(k) ==
    /\ Idle /\ k \in DOMAIN proxy.sess /\ k \in DOMAIN sesh
    /\ Becomes([SessionTeardown(State, k) EXCEPT !.sesh = Without(@, k)])

PeerOpens(k) ==
    /\ Idle /\ k \in DOMAIN proxy.sess /\ k \in DOMAIN sesh
    /\ \E id \in {CHOOSE i \in StreamIds : i \notin DOMAIN proxy.stream},
          alloc \in BOOLEAN, way \in DialWays :
             Becomes(OnNewStream(State, k, id, alloc, way))

(* dial_on_event, dial_on_timeout, dial_on_immediate. *)
OnDial(id) ==
    /\ Idle
    /\ \E kind \in DialKinds :
          /\ <<kind, id>> \in ledger.regs
          /\ \E success \in DialEnds(kind), rc \in {"ok", "pool_full", "failed"},
                armed \in BOOLEAN :
                   Becomes(DialDone(State, id, success, rc, armed))

(* proxy_on_retry_timer. *)
OnRetryTimer(id) ==
    /\ Idle /\ <<"retry", id>> \in ledger.regs
    /\ LET fired == [State EXCEPT !.ledger = Cancel(@, {"retry"}, id),
                                  !.proxy.stream[id].retry = FALSE]
       IN \E rc \in {"ok", "pool_full", "failed"}, armed \in BOOLEAN :
             Becomes(TryStartRelay(fired, id, rc, armed))

(* proxy_on_stream_data: data for a stream is passed to its relay, if it   *)
(* has one yet, and may end it.                                            *)
OnStreamData(id) ==
    /\ Idle /\ id \in DOMAIN proxy.stream
    /\ proxy.stream[id].stage = "relaying"
    /\ Becomes(StreamTeardown(State, id))

(* A relay ends at an event of its socket or at its timers:                *)
(* proxy_on_relay_done, proxy_on_dgram_relay_done.                         *)
OnRelayDone(id) ==
    /\ Idle /\ <<"relay", id>> \in ledger.regs
    /\ Becomes(StreamTeardown(State, id))

Loops == {i \in DOMAIN stack : stack[i].op = "loop"}
Loop(k) == [op |-> "loop", id |-> First(proxy.sess[k].streams), told |-> TRUE]

(* proxy_on_writable, called by the event loop, or by the closing frame of *)
(* a stream that is being given back.                                      *)
OnWritable(k) ==
    /\ Idle /\ k \in DOMAIN sesh /\ k \in DOMAIN proxy.sess
    /\ stack' = <<Loop(k)>>
    /\ UNCHANGED <<proxy, ledger, sesh>>

NestedWritable ==
    /\ ~Idle /\ Head(stack).op = "free" /\ ~Head(stack).told
    /\ Cardinality(Loops) < MaxNest
    /\ stack' = <<Loop(proxy.stream[Head(stack).id].ps),
                  [Head(stack) EXCEPT !.told = TRUE]>> \o Tail(stack)
    /\ UNCHANGED <<proxy, ledger, sesh>>

(* One turn of the loop: next is saved, then the relay is told, which may  *)
(* end it (its rate timer cannot be armed, its socket fails).              *)
LoopTurn ==
    /\ ~Idle /\ Head(stack).op = "loop" /\ Head(stack).id # Nil
    /\ LET id == Head(stack).id
           s == proxy.stream[id]
           saved == [State EXCEPT
                       !.stack[1].id = NextOf(proxy.sess[s.ps].streams, id)]
       IN \/ Becomes(saved)
          \/ s.stage = "relaying" /\ Becomes(StreamTeardown(saved, id))

LoopEnd ==
    /\ ~Idle /\ Head(stack).op = "loop" /\ Head(stack).id = Nil
    /\ stack' = Tail(stack)
    /\ UNCHANGED <<proxy, ledger, sesh>>

(* The second half of proxy_stream_teardown. *)
Release ==
    /\ ~Idle /\ Head(stack).op = "free"
    /\ Becomes(Freed([State EXCEPT !.stack = Tail(@)], Head(stack).id))

(* cloak_proxy_destroy, then the registry destroys the sessions.  The room *)
(* its closing frames may report ends relays that it is about to end.      *)
Destroy ==
    /\ Idle
    /\ LET gone == FoldSet(LAMBDA k, x : SessionTeardown(x, k), State,
                           DOMAIN proxy.sess)
       IN Becomes([gone EXCEPT !.sesh = << >>])

-----------------------------------------------------------------------------
Init == proxy = NewProxy /\ ledger = NewLedger /\ sesh = << >> /\ stack = << >>

Returns == LoopTurn \/ LoopEnd \/ Release

Next ==
    \/ \E k \in Keys : \/ Prepare(k) \/ Aborted(k) \/ RegistryBroken(k)
                       \/ PeerOpens(k) \/ OnWritable(k)
    \/ \E id \in StreamIds : OnDial(id) \/ OnRetryTimer(id) \/ OnRelayDone(id)
                              \/ OnStreamData(id)
    \/ NestedWritable \/ Returns \/ Destroy

Spec == Init /\ [][Next]_vars

(* Calls return; a timer that stays armed fires. *)
FairSpec ==
    /\ Spec /\ WF_vars(Returns)
    /\ \A id \in StreamIds : SF_vars(OnDial(id)) /\ SF_vars(OnRetryTimer(id))

-----------------------------------------------------------------------------
(* Properties. *)

(* What a stream holds at each stage of its way to the relay. *)
Holds(id) ==
    LET s == proxy.stream[id]
    IN {kind \in {"retry", "relay"} : \/ kind = "retry" /\ s.retry
                                      \/ kind = "relay" /\ s.stage = "relaying"}
Dialing(id) == {r \in ledger.regs : r[1] \in DialKinds /\ r[2] = id}

(* No callback, descriptor or stream outlives what it belongs to, and none *)
(* is forgotten: the registrations are those of the live streams and their *)
(* stage, open descriptors have exactly one owner, and the streams the     *)
(* sessions handed out are the ones the proxy still has.                   *)
NothingStrays ==
    /\ ledger.regs \ (DialKinds \X StreamIds)
          = UNION {Holds(id) \X {id} : id \in DOMAIN proxy.stream}
    /\ \A id \in StreamIds : Dialing(id) # {} <=>
          id \in DOMAIN proxy.stream /\ proxy.stream[id].stage = "dialing"
    /\ ledger.fds = {id \in DOMAIN proxy.stream :
                       \/ proxy.stream[id].stage \in {"dialing", "relaying"}
                       \/ proxy.stream[id].fd_pending}
    /\ \A id \in DOMAIN proxy.stream : proxy.stream[id].fd_pending
          => proxy.stream[id].retry /\ proxy.stream[id].stage = "dialed"
    /\ \A k \in DOMAIN sesh : k \in DOMAIN proxy.sess
          /\ sesh[k] = Range(proxy.sess[k].streams)

(* A count never passes its cap, the two counts agree with the lists, and  *)
(* a cap that is reported as reached is forgotten once its count has       *)
(* fallen: the next time it is reached is reported again.                  *)
CapsHold ==
    /\ Total(proxy) <= MAX_TOTAL
    /\ DOMAIN proxy.stream = UNION {Range(proxy.sess[k].streams) :
                                      k \in DOMAIN proxy.sess}
    /\ proxy.total_capped => Total(proxy) > CapLowWater(MAX_TOTAL)
    /\ \A k \in DOMAIN proxy.sess :
          /\ Count(proxy, k) <= MAX_PER_SESSION
          /\ proxy.sess[k].capped
                => Count(proxy, k) > CapLowWater(MAX_PER_SESSION)

(* Every stream taken from a session is spliced with its upstream or given *)
(* back, whatever the dial and the pool do.                                *)
Unsettled(id) ==
    id \in DOMAIN proxy.stream /\ proxy.stream[id].stage # "relaying"
StreamsSettle == \A id \in StreamIds : Unsettled(id) ~> ~Unsettled(id)

(* A loop over the streams goes on with a stream that is alive. *)
SavedNextIsLive ==
    \A i \in Loops : stack[i].id # Nil => stack[i].id \in DOMAIN proxy.stream
=============================================================================
