----------------------------- MODULE TimerHeap -----------------------------
(***************************************************************************)
(* The timers of cloak_reactor_t (libcloak-common/src/reactor.c): a binary *)
(* heap of entries, and a table of slots through which a handle finds its  *)
(* entry in one step.  A slot is recycled when its timer fires or is       *)
(* cancelled, under the next generation, and retired at the last one.      *)
(*                                                                         *)
(* One step of a sift loop is one action; nothing else runs meanwhile.     *)
(* process_expired_timers reads the clock once, then fires timer by timer, *)
(* and each callback may add and cancel timers.                            *)
(***************************************************************************)
EXTENDS Naturals, Sequences

CONSTANTS TIMER_MAX_SLOTS, TIMER_GEN_MAX,
          Delays,    \* the delays callers ask for
          MaxNow     \* bound: the clock

TimerAssumption ==
    /\ TIMER_MAX_SLOTS \in Nat \ {0} /\ TIMER_GEN_MAX \in Nat
    /\ Delays \subseteq Nat /\ MaxNow \in Nat

VARIABLES
    timers, timer_count,
    slots,           \* slots[s]: heap_pos, gen, in_use
    slots_count,     \* slots ever handed out
    free_list,       \* the free slots, from free_slot along next_free
    sift,            \* the sift in progress: its direction, place and entry
    now, pass,       \* the clock; process_expired_timers and the now it read
    issued           \* history: the handles returned so far

vars == <<timers, timer_count, slots, slots_count, free_list, sift, now, pass,
          issued>>
heap == <<timers, timer_count, slots, slots_count, free_list, sift>>

Index == 0..TIMER_MAX_SLOTS - 1
(* A handle: (gen << TIMER_SLOT_BITS) | (slot + 1). *)
Handles == [gen : 0..TIMER_GEN_MAX, low : 0..TIMER_MAX_SLOTS]
Entries == [deadline_ms : Nat, id : Handles, slot : Index]
NoEntry == [deadline_ms |-> 0, id |-> [gen |-> 0, low |-> 0], slot |-> 0]
NoSlot == TIMER_MAX_SLOTS
(* then: the slot timer_slot_free gets when the heap is whole again. *)
NoSift == [dir |-> "none", i |-> 0, e |-> NoEntry, moved |-> FALSE,
           then |-> NoSlot]

TypeOK ==
    /\ timers \in [Index -> Entries] /\ timer_count \in 0..TIMER_MAX_SLOTS
    /\ slots \in [Index -> [heap_pos : Index, gen : 0..TIMER_GEN_MAX,
                            in_use : BOOLEAN]]
    /\ slots_count \in 0..TIMER_MAX_SLOTS
    /\ free_list \in Seq(Index)
    /\ sift \in [dir : {"none", "up", "down"}, i : Index, e : Entries,
                 moved : BOOLEAN, then : Index \cup {NoSlot}]
    /\ now \in Nat /\ pass \in [on : BOOLEAN, now : Nat]
    /\ issued \subseteq Handles

Init ==
    /\ timers = [i \in Index |-> NoEntry] /\ timer_count = 0
    /\ slots = [s \in Index |-> [heap_pos |-> 0, gen |-> 0, in_use |-> FALSE]]
    /\ slots_count = 0 /\ free_list = <<>> /\ sift = NoSift
    /\ now = 0 /\ pass = [on |-> FALSE, now |-> 0] /\ issued = {}

Whole == sift.dir = "none"

(* timer_place: the entry goes to place i, and its slot records that. *)
PlaceSlot(sl, i, e) == [sl EXCEPT ![e.slot].heap_pos = i]
Place(tm, i, e) == [tm EXCEPT ![i] = e]

(* timer_slot_free: the last generation's slot is not recycled. *)
SlotFree(sl, s) ==
    IF sl[s].gen < TIMER_GEN_MAX
    THEN /\ slots' = [sl EXCEPT ![s].in_use = FALSE, ![s].gen = @ + 1]
         /\ free_list' = <<s>> \o free_list
    ELSE /\ slots' = [sl EXCEPT ![s].in_use = FALSE]
         /\ UNCHANGED free_list

(* The heap is whole: free the slot of the entry that was removed, if any. *)
Done(sl) ==
    /\ sift' = NoSift
    /\ IF sift.then = NoSlot
       THEN slots' = sl /\ UNCHANGED free_list
       ELSE SlotFree(sl, sift.then)

----------------------------------------------------------------------------
(* cloak_reactor_add_timer with slot s, up to the sift. *)
Insert(s, sl, d) ==
    LET e == [deadline_ms |-> now + d,
              id |-> [gen |-> sl[s].gen, low |-> s + 1], slot |-> s]
    IN  /\ timers' = Place(timers, timer_count, e)
        /\ slots' = PlaceSlot([sl EXCEPT ![s].in_use = TRUE], timer_count, e)
        /\ timer_count' = timer_count + 1
        /\ sift' = [dir |-> "up", i |-> timer_count, e |-> e, moved |-> FALSE,
                    then |-> NoSlot]
        /\ issued' = issued \cup {e.id}
        /\ UNCHANGED <<now, pass>>

(* timer_slot_alloc from the free list, *)
AddRecycled(d) ==
    /\ Whole /\ free_list # <<>>
    /\ free_list' = Tail(free_list)
    /\ Insert(free_list[1], slots, d)
    /\ UNCHANGED slots_count

(* or a slot never used; there are TIMER_MAX_SLOTS of them. *)
AddNew(d) ==
    /\ Whole /\ free_list = <<>>
    /\ slots_count < TIMER_MAX_SLOTS
    /\ slots_count' = slots_count + 1
    /\ Insert(slots_count, slots, d)
    /\ UNCHANGED free_list

(* heap_sift_up: the entry moves towards the root, past later parents, *)
SiftUp ==
    /\ sift.dir = "up"
    /\ \E p \in Index :
          /\ sift.i \in {2*p + 1, 2*p + 2}
          /\ timers[p].deadline_ms > sift.e.deadline_ms
          /\ timers' = Place(timers, sift.i, timers[p])
          /\ slots' = PlaceSlot(slots, sift.i, timers[p])
          /\ sift' = [sift EXCEPT !.i = p]
    /\ UNCHANGED <<free_list, timer_count, slots_count, now, pass, issued>>
(* and is placed when it is the root or its parent is not later. *)
SiftUpDone ==
    /\ sift.dir = "up"
    /\ \A p \in Index : sift.i \in {2*p + 1, 2*p + 2} =>
                            timers[p].deadline_ms <= sift.e.deadline_ms
    /\ timers' = Place(timers, sift.i, sift.e)
    /\ Done(PlaceSlot(slots, sift.i, sift.e))
    /\ UNCHANGED <<timer_count, slots_count, now, pass, issued>>

(* heap_sift_down's smallest child c of i. *)
Smallest(i, c) ==
    /\ c \in {2*i + 1, 2*i + 2} /\ c < timer_count
    /\ \A b \in {2*i + 1, 2*i + 2} :
          b < timer_count => timers[c].deadline_ms <= timers[b].deadline_ms
    /\ c = 2*i + 2 => timers[c].deadline_ms < timers[2*i + 1].deadline_ms

(* heap_sift_down: the entry moves away from the root, *)
SiftDown ==
    /\ sift.dir = "down"
    /\ \E c \in Index :
          /\ Smallest(sift.i, c) /\ timers[c].deadline_ms < sift.e.deadline_ms
          /\ timers' = Place(timers, sift.i, timers[c])
          /\ slots' = PlaceSlot(slots, sift.i, timers[c])
          /\ sift' = [sift EXCEPT !.i = c, !.moved = TRUE]
    /\ UNCHANGED <<free_list, timer_count, slots_count, now, pass, issued>>
(* and is placed where no child is earlier; heap_remove_at sifts it up if  *)
(* it did not move.                                                        *)
SiftDownDone ==
    /\ sift.dir = "down"
    /\ \A c \in Index : Smallest(sift.i, c) =>
                            timers[c].deadline_ms >= sift.e.deadline_ms
    /\ timers' = Place(timers, sift.i, sift.e)
    /\ IF sift.moved
       THEN Done(PlaceSlot(slots, sift.i, sift.e))
       ELSE /\ slots' = PlaceSlot(slots, sift.i, sift.e)
            /\ sift' = [sift EXCEPT !.dir = "up"]
            /\ UNCHANGED free_list
    /\ UNCHANGED <<timer_count, slots_count, now, pass, issued>>

(* heap_remove_at, up to the sift, then timer_slot_free of slot s: the     *)
(* last entry fills the hole.  Its old place, which is not read again      *)
(* before it is written, is blank.                                         *)
RemoveAt(pos, s) ==
    LET last == timer_count - 1 IN
    /\ timer_count' = last
    /\ timers' = Place(Place(timers, pos, timers[last]), last, NoEntry)
    /\ IF pos = last
       THEN SlotFree(slots, s) /\ UNCHANGED sift
       ELSE /\ slots' = PlaceSlot(slots, pos, timers[last])
            /\ sift' = [dir |-> "down", i |-> pos, e |-> timers[last],
                        moved |-> FALSE, then |-> s]
            /\ UNCHANGED free_list
    /\ UNCHANGED <<slots_count, now, issued>>

(* Mutant: a recycled slot is not told from the one the handle was for. *)
NamesSlot(id) ==
    /\ id.low # 0 /\ id.low - 1 < slots_count
    /\ slots[id.low - 1].in_use
(* The handle's slot is in use, under the handle's generation. *)
Names(id) ==
    /\ id.low # 0 /\ id.low - 1 < slots_count
    /\ slots[id.low - 1].in_use /\ slots[id.low - 1].gen = id.gen

(* cloak_reactor_cancel_timer; any other handle is ignored. *)
CancelTimer(id) ==
    /\ Whole /\ Names(id)
    /\ RemoveAt(slots[id.low - 1].heap_pos, id.low - 1)
    /\ UNCHANGED pass

----------------------------------------------------------------------------
(* process_expired_timers reads the clock, *)
BeginPass ==
    /\ Whole /\ ~pass.on
    /\ pass' = [on |-> TRUE, now |-> now]
    /\ UNCHANGED <<heap, now, issued>>

(* Mutant: the pass ends after a root that is exactly due. *)
FireTopLate ==
    /\ Whole /\ pass.on /\ timer_count > 0
    /\ timers[0].deadline_ms < pass.now
    /\ RemoveAt(0, timers[0].slot)
    /\ UNCHANGED pass
(* fires the root while it is due: its slot is freed before the callback,  *)
FireTop ==
    /\ Whole /\ pass.on /\ timer_count > 0
    /\ timers[0].deadline_ms <= pass.now
    /\ RemoveAt(0, timers[0].slot)
    /\ UNCHANGED pass

(* and ends when none is. *)
EndPass ==
    /\ Whole /\ pass.on
    /\ timer_count > 0 => timers[0].deadline_ms > pass.now
    /\ pass' = [on |-> FALSE, now |-> 0]
    /\ UNCHANGED <<heap, now, issued>>

Tick == now < MaxNow /\ now' = now + 1 /\ UNCHANGED <<heap, pass, issued>>

Sifts == SiftUp \/ SiftUpDone \/ SiftDown \/ SiftDownDone

Next ==
    \/ \E d \in Delays : AddRecycled(d) \/ AddNew(d)
    \/ \E id \in Handles : CancelTimer(id)
    \/ Sifts
    \/ BeginPass \/ FireTop \/ EndPass \/ Tick

Spec == Init /\ [][Next]_vars

(* The pass runs to its end, turn after turn, and the clock advances. *)
Fairness ==
    /\ WF_vars(Sifts)
    /\ WF_vars(FireTop \/ EndPass) /\ WF_vars(BeginPass) /\ WF_vars(Tick)
FairSpec == Spec /\ Fairness

----------------------------------------------------------------------------
Children(i) == {2*i + 1, 2*i + 2}

(* Between operations no entry is due before its parent in the heap: what  *)
(* heap_sift_up and heap_sift_down restore after every insertion and       *)
(* removal, wherever in the heap it was.                                   *)
HeapOrder ==
    Whole => \A i, c \in Index :
        c \in Children(i) /\ c < timer_count =>
            timers[i].deadline_ms <= timers[c].deadline_ms

(* Between operations the slots and the heap agree: the heap_pos of a slot *)
(* in use is where its entry is, the entry carries the slot's current      *)
(* generation, and a slot that is free or retired has no entry.  This is   *)
(* what lets cloak_reactor_cancel_timer skip the search.                   *)
SlotsAgree ==
    Whole =>
      /\ \A i \in 0..timer_count - 1 :
            /\ slots[timers[i].slot].in_use
            /\ slots[timers[i].slot].heap_pos = i
            /\ timers[i].id = [gen |-> slots[timers[i].slot].gen,
                               low |-> timers[i].slot + 1]
      /\ \A s \in Index : slots[s].in_use =>
            /\ slots[s].heap_pos < timer_count
            /\ timers[slots[s].heap_pos].slot = s

(* The entries as if the sift in progress were over. *)
Content(i) == IF ~Whole /\ i = sift.i THEN sift.e ELSE timers[i]
Pending == {[id |-> Content(i).id, deadline_ms |-> Content(i).deadline_ms] :
                i \in 0..timer_count - 1}

(* The heap and the slots implement the set of timers of cloak/reactor.h:  *)
(* add_timer never returns a handle again, cancel_timer removes the timer  *)
(* its handle names and nothing else (a handle of a timer that fired, was  *)
(* cancelled or lost its slot to another removes nothing), and the timer   *)
(* that fires is the earliest and is due.                                  *)
Promise == INSTANCE TimerSet WITH pending <- Pending
Implements == Promise!Spec

(* The handle a caller passes decides which timer goes: that of its own    *)
(* add_timer, although the slot it names may have been recycled since.     *)
CancelsOwn ==
    [][\A id \in issued : CancelTimer(id) => Promise!Cancel(id)]_vars

(* The array is a heap whose slots point back at it, after every turn of   *)
(* heap_sift_up and heap_sift_down, it implements the set of timers, and   *)
(* cancel_timer with a stale handle takes no other timer.                  *)
HeapIsSet == [](HeapOrder /\ SlotsAgree) /\ Implements /\ CancelsOwn

(* Every timer fires or is cancelled: no due timer stays behind, however   *)
(* many callbacks add and cancel timers in the same pass.  Timers due      *)
(* after the end of the bounded clock are left out.                        *)
Due(id) == \E t \in Pending : t.id = id /\ t.deadline_ms <= MaxNow
Ended(id) == \A t \in Pending : t.id # id
=============================================================================
