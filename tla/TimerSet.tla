------------------------------ MODULE TimerSet ------------------------------
(***************************************************************************)
(* What the timers of cloak_reactor_t promise (cloak/reactor.h): a set of  *)
(* pending timers, each named by a handle that is never issued twice;      *)
(* cancelling removes the timer the handle names and no other; a timer     *)
(* that fires is due, and none that is still pending is due before it.     *)
(***************************************************************************)
EXTENDS Naturals

CONSTANTS Handles, Delays

VARIABLES pending,   \* the pending timers, [id, deadline_ms]
          issued,    \* every handle ever returned by add_timer
          now,       \* the monotonic clock
          pass       \* whether process_expired_timers runs, and its now

vars == <<pending, issued, now, pass>>

Idle == [on |-> FALSE, now |-> 0]

Init == pending = {} /\ issued = {} /\ now = 0 /\ pass = Idle

Add(id, d) ==
    /\ id \notin issued /\ issued' = issued \cup {id}
    /\ pending' = pending \cup {[id |-> id, deadline_ms |-> now + d]}
    /\ UNCHANGED <<now, pass>>

Cancel(id) ==
    /\ pending' = {t \in pending : t.id # id}
    /\ UNCHANGED <<issued, now, pass>>

Begin == /\ ~pass.on /\ pass' = [on |-> TRUE, now |-> now]
         /\ UNCHANGED <<pending, issued, now>>

Fire(t) ==
    /\ pass.on /\ t \in pending /\ t.deadline_ms <= pass.now
    /\ \A u \in pending : t.deadline_ms <= u.deadline_ms
    /\ pending' = {u \in pending : u.id # t.id}
    /\ UNCHANGED <<issued, now, pass>>

End ==
    /\ pass.on /\ \A t \in pending : t.deadline_ms > pass.now
    /\ pass' = Idle
    /\ UNCHANGED <<pending, issued, now>>

Tick == now' > now /\ now' \in Nat /\ UNCHANGED <<pending, issued, pass>>

Next ==
    \/ \E id \in Handles, d \in Delays : Add(id, d)
    \/ \E id \in Handles : Cancel(id)
    \/ \E t \in pending : Fire(t)
    \/ Begin \/ End \/ Tick

Spec == Init /\ [][Next]_vars
=============================================================================
