------------------------------- MODULE Ledger -------------------------------
(***************************************************************************)
(* What the objects of a component hold outside their own memory, each     *)
(* thing under the name of the object that owns it: the descriptors that   *)
(* are open, and the registrations that will call back (watched            *)
(* descriptors and armed timers of the reactor).  The linked lists the     *)
(* components keep their objects in.  And cloak_dial_t                     *)
(* (libcloak-common/src/dial.c), which is nothing but such holdings: one   *)
(* attempt to connect, on behalf of an owner that is told once how it      *)
(* ended.                                                                  *)
(***************************************************************************)
EXTENDS Integers, FiniteSets, SequencesExt

NewLedger == [fds |-> {}, regs |-> {}]

Register(l, kind, id) == [l EXCEPT !.regs = @ \cup {<<kind, id>>}]
Cancel(l, kinds, id) == [l EXCEPT !.regs = @ \ (kinds \X {id})]
OpenFd(l, id) == [l EXCEPT !.fds = @ \cup {id}]
CloseFd(l, id) == [l EXCEPT !.fds = @ \ {id}]

(* A table without, and with, an entry. *)
Without(f, e) == Restrict(f, DOMAIN f \ {e})
WithEntry(f, e, v) == [d \in DOMAIN f \cup {e} |-> IF d = e THEN v ELSE f[d]]

(* Linked lists: the first element, and the one after another. *)
Nil == "nil"
First(list) == IF list = << >> THEN Nil ELSE Head(list)
NextOf(list, e) ==
    First(SubSeq(list, 1 + CHOOSE i \in DOMAIN list : list[i] = e, Len(list)))
-----------------------------------------------------------------------------
DialKinds == {"dial_fd", "dial_timeout", "dial_now"}

(* How socket, connect and the registrations may go: a failure of any of   *)
(* them gives back what the ones before it took.                           *)
DialWays == {"failed", "connected", "in_progress"}

(* cloak_dial_start: a connection made at once is still reported from the  *)
(* event loop, by a zero-delay timer; timed: timeout_ms > 0.               *)
DialStart(l, id, way, timed) ==
    LET o == OpenFd(l, id)
        w == Register(o, "dial_fd", id)
    IN CASE way = "failed" -> l
         [] way = "connected" -> Register(o, "dial_now", id)
         [] OTHER -> IF timed THEN Register(w, "dial_timeout", id) ELSE w

(* Timers and watched descriptor are given up before anyone is told. *)
DialQuiet(l, id) == Cancel(l, DialKinds, id)

(* dial_finish: success hands the descriptor to the owner. *)
DialFinish(l, id, success) ==
    IF success THEN DialQuiet(l, id) ELSE CloseFd(DialQuiet(l, id), id)

(* cloak_dial_cancel: no callback. *)
DialCancel(l, id) == CloseFd(DialQuiet(l, id), id)

(* The callbacks a pending attempt may get, and how each ends it:          *)
(* dial_on_event asks SO_ERROR, dial_on_timeout fails, dial_on_immediate   *)
(* succeeds.                                                               *)
DialEnds(kind) == CASE kind = "dial_fd" -> BOOLEAN
                    [] kind = "dial_timeout" -> {FALSE}
                    [] kind = "dial_now" -> {TRUE}
=============================================================================
