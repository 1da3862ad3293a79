------------------------------ MODULE Reactor ------------------------------
(***************************************************************************)
(* The event loop of cloak_reactor_t (libcloak-common/src/reactor.c):      *)
(* registration of descriptors, one turn of cloak_reactor_run_once after   *)
(* the other, and the deferred free of watchers removed inside a batch.    *)
(*                                                                         *)
(* The kernel's side of epoll is external: an edge puts a registered       *)
(* watcher at the end of the ready list, epoll_wait takes the first of the *)
(* list.  The timers are a set of callbacks that may be due (TimerHeap     *)
(* has their order and their handles).  Callbacks are the owners' code:    *)
(* they add, remove and modify descriptors, a recycled number included,    *)
(* and stop the loop.                                                      *)
(***************************************************************************)
EXTENDS Naturals, Sequences, SequencesExt, FiniteSets

CONSTANTS Fds,
          MaxWatchers,  \* bound: watchers ever allocated
          MaxEvents     \* the size of run_once's event array

ReactorAssumption == MaxWatchers \in Nat \ {0} /\ MaxEvents \in Nat \ {0}

VARIABLES
    watchers,    \* watchers[fd]: the watcher registered for fd, or None
    watcher,     \* watcher[w]: its fd, its dead flag and its memory
    dead_list, stopped,
    ready,       \* the kernel's ready list
    batch,       \* the events of this turn not yet looked at
    pc,          \* where cloak_reactor_run is
    running      \* the watcher whose callback runs, or None

vars == <<watchers, watcher, dead_list, stopped, ready, batch, pc, running>>
regs == <<watchers, watcher, dead_list, ready>>

W == 1..MaxWatchers
None == 0

TypeOK ==
    /\ watchers \in [Fds -> W \cup {None}]
    /\ watcher \in [W -> [fd : Fds \cup {None}, dead : BOOLEAN,
                          mem : {"unused", "live", "freed"}]]
    /\ dead_list \subseteq W /\ stopped \in BOOLEAN
    /\ ready \in Seq(W)
    /\ batch \in Seq(W) /\ Len(batch) <= MaxEvents
    /\ pc \in {"returned", "wait", "dispatch", "callback", "free", "timers",
               "timer_callback"}
    /\ running \in W \cup {None}

Init ==
    /\ watchers = [f \in Fds |-> None]
    /\ watcher = [w \in W |-> [fd |-> None, dead |-> FALSE, mem |-> "unused"]]
    /\ dead_list = {} /\ stopped = FALSE /\ ready = <<>> /\ batch = <<>>
    /\ pc = "returned" /\ running = None

OwnerRuns == pc \in {"returned", "callback", "timer_callback"}

----------------------------------------------------------------------------
(* cloak_reactor_add_fd: refused while the number is registered.  epoll    *)
(* reports a descriptor that is ready already.                             *)
AddFd(f, w) ==
    /\ OwnerRuns /\ watchers[f] = None /\ watcher[w].mem = "unused"
    /\ \A v \in 1..w - 1 : watcher[v].mem # "unused"
    /\ watchers' = [watchers EXCEPT ![f] = w]
    /\ watcher' = [watcher EXCEPT ![w] = [fd |-> f, dead |-> FALSE,
                                          mem |-> "live"]]
    /\ ready' \in {ready, Append(ready, w)}
    /\ UNCHANGED <<dead_list, stopped, batch, pc, running>>

(* cloak_reactor_mod_fd: EPOLL_CTL_MOD reports what is ready once more. *)
ModFd(f) ==
    /\ OwnerRuns /\ watchers[f] # None
    /\ ~Contains(ready, watchers[f])
    /\ ready' = Append(ready, watchers[f])
    /\ UNCHANGED <<watchers, watcher, dead_list, stopped, batch, pc, running>>

(* EPOLL_CTL_DEL: the kernel reports w no more. *)
Unready(w) ==
    IF Contains(ready, w)
    THEN \E i \in 1..Len(ready) : ready[i] = w /\ ready' = RemoveAt(ready, i)
    ELSE UNCHANGED ready

(* Mutant: the watcher is freed at once. *)
RemoveFdFrees(f) ==
    /\ OwnerRuns /\ watchers[f] # None
    /\ watchers' = [watchers EXCEPT ![f] = None]
    /\ watcher' = [watcher EXCEPT ![watchers[f]].mem = "freed"]
    /\ Unready(watchers[f])
    /\ UNCHANGED <<dead_list, stopped, batch, pc, running>>
(* Mutant: the watcher is not marked. *)
RemoveFdUnmarked(f) ==
    /\ OwnerRuns /\ watchers[f] # None
    /\ watchers' = [watchers EXCEPT ![f] = None]
    /\ dead_list' = dead_list \cup {watchers[f]}
    /\ Unready(watchers[f])
    /\ UNCHANGED <<watcher, stopped, batch, pc, running>>
(* cloak_reactor_remove_fd: marked dead and freed after the batch. *)
RemoveFd(f) ==
    /\ OwnerRuns /\ watchers[f] # None
    /\ watchers' = [watchers EXCEPT ![f] = None]
    /\ watcher' = [watcher EXCEPT ![watchers[f]].dead = TRUE]
    /\ dead_list' = dead_list \cup {watchers[f]}
    /\ Unready(watchers[f])
    /\ UNCHANGED <<stopped, batch, pc, running>>

Stop ==
    /\ pc \in {"callback", "timer_callback"} /\ ~stopped /\ stopped' = TRUE
    /\ UNCHANGED <<regs, batch, pc, running>>

----------------------------------------------------------------------------
(* cloak_reactor_run, turn by turn. *)

Run ==
    /\ pc = "returned" /\ pc' = "wait" /\ stopped' = FALSE
    /\ UNCHANGED <<regs, batch, running>>

Return ==
    /\ pc = "wait" /\ stopped /\ pc' = "returned"
    /\ UNCHANGED <<regs, stopped, batch, running>>

(* epoll_wait returns events, or none when its timeout passes. *)
Wait ==
    /\ pc = "wait" /\ ~stopped /\ pc' = "dispatch"
    /\ LET n == IF Len(ready) < MaxEvents THEN Len(ready) ELSE MaxEvents
       IN  /\ batch' = SubSeq(ready, 1, n)
           /\ ready' = SubSeq(ready, n + 1, Len(ready))
    /\ UNCHANGED <<watchers, watcher, dead_list, stopped, running>>

(* A fatal error of epoll_wait; EINTR starts the turn again. *)
WaitFails ==
    /\ pc = "wait" /\ ~stopped /\ pc' = "returned"
    /\ UNCHANGED <<regs, stopped, batch, running>>

(* The next event's watcher is dead: skipped, *)
Skip ==
    /\ pc = "dispatch" /\ batch # <<>> /\ ~stopped
    /\ watcher[Head(batch)].dead
    /\ batch' = Tail(batch)
    /\ UNCHANGED <<regs, stopped, pc, running>>

(* or its callback is called. *)
Dispatch ==
    /\ pc = "dispatch" /\ batch # <<>> /\ ~stopped
    /\ ~watcher[Head(batch)].dead
    /\ pc' = "callback" /\ running' = Head(batch) /\ batch' = Tail(batch)
    /\ UNCHANGED <<regs, stopped>>

CallbackReturns ==
    /\ pc = "callback" /\ pc' = "dispatch" /\ running' = None
    /\ UNCHANGED <<regs, stopped, batch>>

EndBatch ==
    /\ pc = "dispatch" /\ (batch = <<>> \/ stopped) /\ pc' = "free"
    /\ UNCHANGED <<regs, stopped, batch, running>>

(* The dead watchers are freed; a stopped loop fires no timers. *)
FreeDead ==
    /\ pc = "free"
    /\ watcher' = [w \in W |-> IF w \in dead_list
                               THEN [watcher[w] EXCEPT !.mem = "freed"]
                               ELSE watcher[w]]
    /\ dead_list' = {} /\ batch' = <<>>
    /\ pc' = IF stopped THEN "wait" ELSE "timers"
    /\ UNCHANGED <<watchers, ready, stopped, running>>

FireTimer ==
    /\ pc = "timers" /\ ~stopped /\ pc' = "timer_callback"
    /\ UNCHANGED <<regs, stopped, batch, running>>

TimerReturns ==
    /\ pc = "timer_callback" /\ pc' = "timers"
    /\ UNCHANGED <<regs, stopped, batch, running>>

(* No timer is due any more, or the loop was stopped. *)
EndTimers ==
    /\ pc = "timers" /\ pc' = "wait"
    /\ UNCHANGED <<regs, stopped, batch, running>>

(* The kernel: a registered descriptor becomes ready. *)
Edge(w) ==
    /\ watcher[w].fd # None /\ watchers[watcher[w].fd] = w
    /\ ~Contains(ready, w)
    /\ ready' = Append(ready, w)
    /\ UNCHANGED <<watchers, watcher, dead_list, stopped, batch, pc, running>>

Turn == \/ Wait \/ WaitFails \/ Return \/ Skip \/ Dispatch \/ CallbackReturns
        \/ EndBatch \/ FreeDead \/ FireTimer \/ TimerReturns \/ EndTimers
Owner == \/ Run \/ Stop
         \/ \E f \in Fds : ModFd(f) \/ RemoveFd(f) \/ \E w \in W : AddFd(f, w)
Next == Turn \/ Owner \/ \E w \in W : Edge(w)

Spec == Init /\ [][Next]_vars

(* The loop keeps running and callbacks return.  A pass over the timers    *)
(* ends: it fires what was due at one instant, and the clock moves on.     *)
Fairness == WF_vars(Turn) /\ SF_vars(EndTimers) /\ SF_vars(CallbackReturns)
FairSpec == Spec /\ Fairness

----------------------------------------------------------------------------
(* The loop never touches a freed watcher: every event it still has to     *)
(* look at, every entry of the table and every watcher the kernel may      *)
(* report is in live memory, whatever callbacks of the same batch removed. *)
NoDanglingWatcher ==
    /\ TypeOK
    /\ \A w \in ToSet(batch) \cup ToSet(ready) \cup dead_list :
          watcher[w].mem = "live"
    /\ \A f \in Fds : watchers[f] # None => watcher[watchers[f]].mem = "live"

(* A callback is only ever called for the watcher that is registered for   *)
(* its descriptor: an event of a watcher removed earlier in the batch is   *)
(* dropped, also when its number was closed, reused and registered again.  *)
DispatchesLive ==
    pc' = "callback" /\ pc # "callback" =>
        watchers[watcher[running'].fd] = running'

(* Every watcher that was removed is freed, and none that is registered:   *)
(* cloak_reactor_remove_fd, the dead list and the table together own each  *)
(* watcher exactly once.                                                   *)
OwnedOnce ==
    \A w \in W : watcher[w].mem = "live" =>
        (w \in dead_list) # (\E f \in Fds : watchers[f] = w)

(* cloak_reactor_remove_fd inside a callback leaves no event of the batch  *)
(* with a freed watcher, and no watcher without or with two owners.        *)
ReactorIsSound == NoDanglingWatcher /\ OwnedOnce
(* The dispatch loop calls no callback for a watcher that is not the one   *)
(* registered for its descriptor now.                                      *)
NoStaleDispatch == [][DispatchesLive]_vars

(* An edge is delivered, though it is reported only once: unless the       *)
(* descriptor is removed or the loop ends, its callback runs, however many *)
(* descriptors are ready at once.                                          *)
Edged(w) == Contains(ready, w)
Answered(w) == running = w \/ watcher[w].dead \/ stopped \/ pc = "returned"
=============================================================================
