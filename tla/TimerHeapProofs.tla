-------------------------- MODULE TimerHeapProofs ---------------------------
(***************************************************************************)
(* For every number of slots and of generations: the timers of the reactor *)
(* are a heap whose slots agree with it between operations, and implement  *)
(* the set of timers that TimerSet promises.                               *)
(*                                                                         *)
(* The inductive invariant speaks of the heap during a sift too.  The      *)
(* entry in flight counts as being at the hole (Content); the slots agree  *)
(* with every other place; the order holds around the hole, and across it  *)
(* from its parent to its children.  That the root is the earliest entry   *)
(* follows from the order by the least number principle.                   *)
(***************************************************************************)
EXTENDS TimerHeap, Integers, TLAPS

(* Two sequences, one after the other. *)
LEMMA SeqConcat ==
    ASSUME NEW S, NEW a \in Seq(S), NEW b \in Seq(S)
    PROVE  /\ a \o b \in Seq(S) /\ Len(a \o b) = Len(a) + Len(b)
           /\ \A i \in 1..Len(a) + Len(b) :
                (a \o b)[i] = IF i <= Len(a) THEN a[i] ELSE b[i - Len(a)]
  OBVIOUS

Places == 0..timer_count - 1
Hole(i) == ~Whole /\ i = sift.i

(* Every place has an entry of its own slot, which is in use and finds it. *)
EntriesAgree ==
    /\ ~Whole => sift.i \in Places
    /\ \A j \in Places : LET c == Content(j) IN
         /\ slots[c.slot].in_use
         /\ c.id = [gen |-> slots[c.slot].gen, low |-> c.slot + 1]
         /\ ~Hole(j) => slots[c.slot].heap_pos = j
    /\ \A j, k \in Places : Content(j).slot = Content(k).slot => j = k

(* A slot in use has an entry, or is about to be freed. *)
SlotsInUse ==
    /\ \A s \in Index : slots[s].in_use =>
         (\E j \in Places : Content(j).slot = s) \/ (~Whole /\ sift.then = s)
    /\ ~Whole /\ sift.then # NoSlot =>
         slots[sift.then].in_use /\ \A j \in Places : Content(j).slot # sift.then
    /\ \A s \in Index : s >= slots_count => ~slots[s].in_use

(* The slots on the free list, and which handles are out. *)
FreeAgrees ==
    /\ \A k \in 1..Len(free_list) :
         /\ free_list[k] < slots_count /\ ~slots[free_list[k]].in_use
         /\ [gen |-> slots[free_list[k]].gen, low |-> free_list[k] + 1] \notin issued
    /\ \A k, m \in 1..Len(free_list) : free_list[k] = free_list[m] => k = m
    /\ \A h \in issued : h.low \in 1..slots_count /\ h.gen <= slots[h.low - 1].gen

Early(i, j) == timers[i].deadline_ms <= timers[j].deadline_ms

(* The heap order around the hole and across it. *)
Ordered ==
    /\ \A p, c \in Index : c \in Children(p) /\ c < timer_count /\ ~Hole(p) /\ ~Hole(c)
         => Early(p, c)
    /\ ~Whole => \A p, c \in Index :
         sift.i \in Children(p) /\ c \in Children(sift.i) /\ c < timer_count => Early(p, c)
    /\ sift.dir = "up" => \A c \in Index :
         c \in Children(sift.i) /\ c < timer_count =>
           sift.e.deadline_ms <= timers[c].deadline_ms
    /\ sift.dir = "down" /\ sift.moved => \A p \in Index :
         sift.i \in Children(p) => timers[p].deadline_ms <= sift.e.deadline_ms

IInv == TimerAssumption /\ TypeOK /\ EntriesAgree /\ SlotsInUse /\ FreeAgrees /\ Ordered
-----------------------------------------------------------------------------
(* Two facts about numbers: as many entries as slots leave no slot over,   *)
(* and a nonempty set has a least member.  Proved as NumberFactsHold at    *)
(* the end, with the library's theorems.                                   *)
NumberFacts ==
    /\ \A s \in Index : \A f \in [Index -> Index \ {s}] :
         \E j, k \in Index : j # k /\ f[j] = f[k]
    /\ \A T \in SUBSET Nat : T # {} => \E x \in T : \A y \in T : x <= y

-----------------------------------------------------------------------------
(* What timer_place and timer_slot_free do to the slots. *)

SlotType == [heap_pos : Index, gen : 0..TIMER_GEN_MAX, in_use : BOOLEAN]
SameUse(sl) == /\ sl \in [Index -> SlotType]
               /\ \A s \in Index : sl[s].gen = slots[s].gen
                                 /\ (sl[s].in_use <=> slots[s].in_use)

(* What the type invariant says of each variable. *)
LEMMA Types ==
    ASSUME IInv
    PROVE  /\ slots \in [Index -> SlotType] /\ timers \in [Index -> Entries]
           /\ sift.e \in Entries /\ sift.i \in Index /\ timer_count \in Nat
           /\ TIMER_MAX_SLOTS \in Nat /\ TIMER_GEN_MAX \in Nat
           /\ timer_count <= TIMER_MAX_SLOTS /\ free_list \in Seq(Index)
           /\ Places \subseteq Index /\ NoSlot \notin Index
           /\ \A s \in Index : slots[s].gen \in 0..TIMER_GEN_MAX
           /\ \A s \in Index : slots[s].heap_pos \in Index
           /\ \A i \in Index : Content(i) \in Entries
           /\ \A e \in Entries : e.slot \in Index /\ e.deadline_ms \in Nat
           /\ slots_count \in 0..TIMER_MAX_SLOTS
<1>1. TIMER_MAX_SLOTS \in Nat \ {0} /\ TIMER_GEN_MAX \in Nat
      /\ timer_count \in 0..TIMER_MAX_SLOTS
  BY DEF IInv, TimerAssumption, TypeOK
<1>2. Places \subseteq Index /\ NoSlot \notin Index
  BY <1>1 DEF Places, Index, NoSlot
<1>3. /\ timers \in [Index -> Entries] /\ free_list \in Seq(Index)
      /\ sift.e \in Entries /\ sift.i \in Index
  BY DEF IInv, TypeOK
<1>4. slots \in [Index -> SlotType]
  BY DEF IInv, TypeOK, SlotType
<1>5. \A s \in Index : slots[s].gen \in 0..TIMER_GEN_MAX /\ slots[s].heap_pos \in Index
  BY <1>4 DEF SlotType
<1>6. \A i \in Index : Content(i) \in Entries
  BY <1>3 DEF Content
<1>7. \A e \in Entries : e.slot \in Index /\ e.deadline_ms \in Nat
  BY DEF Entries
<1>8. slots_count \in 0..TIMER_MAX_SLOTS
  BY DEF IInv, TypeOK
<1> QED
  BY <1>1, <1>2, <1>3, <1>4, <1>5, <1>6, <1>7, <1>8

(* timer_place changes the index of one slot. *)
LEMMA PlaceSlotFacts ==
    ASSUME NEW sl \in [Index -> SlotType], NEW i \in Index, NEW e \in Entries
    PROVE  /\ PlaceSlot(sl, i, e) \in [Index -> SlotType]
           /\ \A s \in Index :
                /\ PlaceSlot(sl, i, e)[s].gen = sl[s].gen
                /\ PlaceSlot(sl, i, e)[s].in_use = sl[s].in_use
                /\ PlaceSlot(sl, i, e)[s].heap_pos = IF s = e.slot THEN i
                                                     ELSE sl[s].heap_pos
<1>1. PICK t \in Index : t = e.slot
  BY DEF Entries
<1> DEFINE r == [sl[t] EXCEPT !.heap_pos = i]
<1>2. r \in SlotType /\ r.gen = sl[t].gen /\ r.in_use = sl[t].in_use /\ r.heap_pos = i
  BY DEF SlotType
<1>3. PlaceSlot(sl, i, e) = [sl EXCEPT ![t] = r]
  BY <1>1 DEF PlaceSlot
<1> HIDE DEF r
<1> QED
  BY <1>1, <1>2, <1>3

(* timer_slot_free retires the handle and keeps the other slots. *)
LEMMA SlotFreeFacts ==
    ASSUME TIMER_GEN_MAX \in Nat, free_list \in Seq(Index),
           NEW sl \in [Index -> SlotType], NEW s \in Index, SlotFree(sl, s)
    PROVE  /\ slots' \in [Index -> SlotType] /\ free_list' \in Seq(Index)
           /\ \A t \in Index : t # s => slots'[t] = sl[t]
           /\ ~slots'[s].in_use /\ slots'[s].heap_pos = sl[s].heap_pos
           /\ \/ /\ slots'[s].gen = sl[s].gen /\ free_list' = free_list
              \/ /\ slots'[s].gen = sl[s].gen + 1
                 /\ Len(free_list') = Len(free_list) + 1 /\ free_list'[1] = s
                 /\ \A k \in 1..Len(free_list) : free_list'[k + 1] = free_list[k]
<1>1. CASE sl[s].gen < TIMER_GEN_MAX
  <2> DEFINE r == [sl[s] EXCEPT !.in_use = FALSE, !.gen = @ + 1]
             a == <<s>>
             f == a \o free_list
  <2>1. r \in SlotType /\ r.gen = sl[s].gen + 1 /\ ~r.in_use
        /\ r.heap_pos = sl[s].heap_pos
    <3>1. sl[s].gen + 1 \in 0..TIMER_GEN_MAX /\ sl[s] \in SlotType
      BY <1>1 DEF SlotType
    <3> QED BY Zenon, <3>1 DEF SlotType
  <2>2. slots' = [sl EXCEPT ![s] = r] /\ free_list' = f
    BY Zenon, <1>1 DEF SlotFree
  <2> HIDE DEF r
  <2>3. a \in Seq(Index) /\ Len(a) = 1 /\ a[1] = s /\ Len(free_list) \in Nat
    OBVIOUS
  <2> HIDE DEF a
  <2>4. /\ f \in Seq(Index) /\ Len(f) = Len(a) + Len(free_list)
        /\ \A i \in 1..Len(a) + Len(free_list) :
             f[i] = IF i <= Len(a) THEN a[i] ELSE free_list[i - Len(a)]
    <3>1. a \in Seq(Index)
      BY <2>3
    <3> QED BY <3>1, SeqConcat, Zenon
  <2> HIDE DEF f
  <2>5. Len(f) = Len(free_list) + 1 /\ f[1] = s
        /\ \A k \in 1..Len(free_list) : f[k + 1] = free_list[k]
    BY <2>3, <2>4
  <2>6. slots' \in [Index -> SlotType] /\ slots'[s] = r
        /\ \A t \in Index : t # s => slots'[t] = sl[t]
    BY <2>1, <2>2
  <2> QED BY <2>1, <2>2, <2>4, <2>5, <2>6
<1>2. CASE ~(sl[s].gen < TIMER_GEN_MAX)
  <2> DEFINE r == [sl[s] EXCEPT !.in_use = FALSE]
  <2>1. r \in SlotType /\ r.gen = sl[s].gen /\ ~r.in_use
        /\ r.heap_pos = sl[s].heap_pos
    <3>1. sl[s] \in SlotType
      OBVIOUS
    <3> QED BY Zenon, <3>1 DEF SlotType
  <2>2. slots' = [sl EXCEPT ![s] = r] /\ free_list' = free_list
    BY <1>2 DEF SlotFree
  <2> HIDE DEF r
  <2> QED BY <2>1, <2>2
<1> QED
  BY <1>1, <1>2

(* Numbers of slots, of entries and of handles. *)
LEMMA Counting ==
    ASSUME TIMER_MAX_SLOTS \in Nat
    PROVE  /\ Index \subseteq Nat /\ 0..TIMER_MAX_SLOTS \subseteq Nat
           /\ \A n \in Index : n + 1 \in 0..TIMER_MAX_SLOTS
           /\ \A n, b \in Nat : n < b => (n + 1) - 1 = n /\ n + 1 \in 1..b
           /\ \A t, n, a, b \in Nat : t >= b /\ n < b /\ a <= b => t # n /\ t >= a
           /\ \A n, c \in Nat : ~(n < c /\ c < n + 1) /\ (n < c => n # c)
           /\ \A a \in 0..TIMER_MAX_SLOTS, b \in Nat : \A l \in 1..a :
                 a <= b => l \in 1..b /\ l - 1 \in Index
<1>1. Index \subseteq Nat /\ 0..TIMER_MAX_SLOTS \subseteq Nat
  BY DEF Index
<1>2. \A n \in Index : n + 1 \in 0..TIMER_MAX_SLOTS
  BY DEF Index
<1>3. \A n, b \in Nat : n < b => (n + 1) - 1 = n /\ n + 1 \in 1..b
  OBVIOUS
<1>4. \A t, n, a, b \in Nat : t >= b /\ n < b /\ a <= b => t # n /\ t >= a
  OBVIOUS
<1>5. \A n, c \in Nat : ~(n < c /\ c < n + 1) /\ (n < c => n # c)
  OBVIOUS
<1>6. \A a \in 0..TIMER_MAX_SLOTS, b \in Nat : \A l \in 1..a :
         a <= b => l \in 1..b /\ l - 1 \in Index
  BY DEF Index
<1> QED BY Zenon, <1>1, <1>2, <1>3, <1>4, <1>5, <1>6

(* The members of the free list are slots. *)
LEMMA InTheList ==
    ASSUME NEW q \in Seq(Index)
    PROVE  \A k \in 1..Len(q) : q[k] \in Index
OBVIOUS

(* Every handle given out names a slot, of a generation that slot has reached. *)
LEMMA IssuedFacts ==
    ASSUME IInv
    PROVE  \A h \in issued : h.low \in 1..slots_count /\ h.gen <= slots[h.low - 1].gen
                             /\ h.low - 1 \in Index
<1>1. \A h \in issued : h.low \in 1..slots_count /\ h.gen <= slots[h.low - 1].gen
  BY Zenon DEF IInv, FreeAgrees
<1>2. slots_count \in 0..TIMER_MAX_SLOTS /\ TIMER_MAX_SLOTS \in Nat
  BY Zenon, Types
<1>3. slots_count \in Nat /\ slots_count <= slots_count
  BY <1>2
<1> QED BY Zenon, <1>1, <1>2, <1>3, Counting

(* The free list and the handles after a slot in use was freed. *)
LEMMA FreeKeepsFree ==
    ASSUME IInv, NEW sl, SameUse(sl), NEW s \in Index, slots[s].in_use,
           SlotFree(sl, s), UNCHANGED <<issued, slots_count>>
    PROVE  FreeAgrees'
<1>0. sl \in [Index -> SlotType] /\ TIMER_GEN_MAX \in Nat /\ free_list \in Seq(Index)
      /\ Len(free_list) \in Nat
  BY Types DEF SameUse
<1>1. /\ free_list' \in Seq(Index) /\ ~slots'[s].in_use
      /\ \A t \in Index : t # s => slots'[t].gen = slots[t].gen
                                   /\ (slots'[t].in_use <=> slots[t].in_use)
  BY <1>0, SlotFreeFacts DEF SameUse
<1>2. s < slots_count
  BY Types DEF IInv, SlotsInUse, Index
<1>3. \A k \in 1..Len(free_list) : free_list[k] \in Index /\ free_list[k] # s
  <2>1. \A k \in 1..Len(free_list) : free_list[k] \in Index
    BY <1>0
  <2>2. \A k \in 1..Len(free_list) : ~slots[free_list[k]].in_use
    BY Zenon DEF IInv, FreeAgrees
  <2> QED BY <2>1, <2>2
<1>4. \A h \in issued : h.low \in 1..slots_count /\ h.gen <= slots[h.low - 1].gen
                        /\ h.low - 1 \in Index
  BY Zenon, IssuedFacts
<1>5. sl[s].gen = slots[s].gen /\ slots[s].gen \in Nat
  BY Types DEF SameUse
<1>6. CASE slots'[s].gen = sl[s].gen /\ free_list' = free_list
  <2>1. \A t \in Index : slots'[t].gen = slots[t].gen
    BY <1>1, <1>5, <1>6
  <2>2. \A h \in issued : h.low \in 1..slots_count /\ h.gen <= slots'[h.low - 1].gen
    BY <1>4, <2>1
  <2>3. \A k \in 1..Len(free_list) :
          /\ free_list[k] < slots_count /\ ~slots'[free_list[k]].in_use
          /\ [gen |-> slots'[free_list[k]].gen, low |-> free_list[k] + 1] \notin issued
    BY <1>1, <1>3, <2>1 DEF IInv, FreeAgrees
  <2> QED BY <1>6, <2>2, <2>3 DEF IInv, FreeAgrees
<1>7. CASE /\ slots'[s].gen = sl[s].gen + 1
           /\ Len(free_list') = Len(free_list) + 1 /\ free_list'[1] = s
           /\ \A k \in 1..Len(free_list) : free_list'[k + 1] = free_list[k]
  <2>1. \A k \in 1..Len(free_list') : k = 1 \/
          (k - 1 \in 1..Len(free_list) /\ free_list'[k] = free_list[k - 1])
    <3> SUFFICES ASSUME NEW k \in 1..Len(free_list'), k # 1
                 PROVE  k - 1 \in 1..Len(free_list) /\ free_list'[k] = free_list[k - 1]
      OBVIOUS
    <3>1. k - 1 \in 1..Len(free_list) /\ (k - 1) + 1 = k
      BY <1>0, <1>7
    <3> QED BY <1>7, <3>1
  <2>2. \A h \in issued : h.low \in 1..slots_count /\ h.gen <= slots'[h.low - 1].gen
    <3> SUFFICES ASSUME NEW h \in issued
                 PROVE  h.gen <= slots'[h.low - 1].gen
      BY <1>4
    <3>1. h.gen \in Nat
      BY DEF IInv, TypeOK, Handles
    <3>2. CASE h.low - 1 = s
      BY <1>4, <1>5, <1>7, <3>1, <3>2
    <3>3. CASE h.low - 1 # s
      BY <1>1, <1>4, <3>3
    <3> QED BY <3>2, <3>3
  <2>3. [gen |-> slots'[s].gen, low |-> s + 1] \notin issued
    <3> SUFFICES ASSUME NEW h \in issued, h.gen = slots'[s].gen, h.low = s + 1
                 PROVE  FALSE
      OBVIOUS
    <3>1. h.low - 1 = s
      BY DEF Index
    <3> QED BY <1>4, <1>5, <1>7, <3>1
  <2>4. ASSUME NEW k \in 1..Len(free_list')
        PROVE  /\ free_list'[k] < slots_count /\ ~slots'[free_list'[k]].in_use
               /\ [gen |-> slots'[free_list'[k]].gen, low |-> free_list'[k] + 1] \notin issued
    <3>1. CASE k = 1
      BY <1>1, <1>2, <1>7, <2>3, <3>1
    <3>2. CASE k # 1
      <4>1. PICK m \in 1..Len(free_list) : free_list'[k] = free_list[m]
        BY <2>1, <3>2
      <4>2. slots'[free_list[m]].gen = slots[free_list[m]].gen
            /\ (slots'[free_list[m]].in_use <=> slots[free_list[m]].in_use)
        BY <1>1, <1>3
      <4> QED BY <4>1, <4>2 DEF IInv, FreeAgrees
    <3> QED BY <3>1, <3>2
  <2>5. ASSUME NEW k \in 1..Len(free_list'), NEW m \in 1..Len(free_list'),
               free_list'[k] = free_list'[m]
        PROVE  k = m
    <3>1. CASE k = 1 \/ m = 1
      BY <1>3, <1>7, <2>1, <2>5, <3>1
    <3>2. CASE k # 1 /\ m # 1
      <4>1. k - 1 = m - 1
        BY SMTT(20), Z3T(20), <2>1, <2>5, <3>2 DEF IInv, FreeAgrees
      <4> QED BY <4>1
    <3> QED BY <3>1, <3>2
  <2> QED BY <2>2, <2>4, <2>5 DEF FreeAgrees
<1> QED
  BY <1>0, <1>6, <1>7, SlotFreeFacts
-----------------------------------------------------------------------------
(* A step of a sift: the hole and a neighbour q change places. *)

Move(q) ==
    /\ ~Whole /\ q \in Places /\ q # sift.i
    /\ timers' = Place(timers, sift.i, timers[q])
    /\ slots' = PlaceSlot(slots, sift.i, timers[q])
    /\ sift'.dir = sift.dir /\ sift'.i = q /\ sift'.e = sift.e
    /\ sift'.then = sift.then
    /\ UNCHANGED <<timer_count, slots_count, free_list, issued>>

(* One turn of a sift loop copies one entry into the hole. *)
LEMMA MoveFacts ==
    ASSUME IInv, NEW q, Move(q)
    PROVE  /\ timers' \in [Index -> Entries] /\ slots' \in [Index -> SlotType]
           /\ \A s \in Index : slots'[s].gen = slots[s].gen
                             /\ (slots'[s].in_use <=> slots[s].in_use)
                             /\ slots'[s].heap_pos = IF s = timers[q].slot THEN sift.i
                                                      ELSE slots[s].heap_pos
           /\ \A j \in Index : timers'[j] = IF j = sift.i THEN timers[q] ELSE timers[j]
           /\ \A j \in Places : Content(j)' = IF j = sift.i THEN Content(q)
                                ELSE IF j = q THEN Content(sift.i) ELSE Content(j)
           /\ Places' = Places /\ ~Whole' /\ (\A j : Hole(j)' <=> j = q)
           /\ sift.i \in Places /\ Content(sift.i) = sift.e /\ Content(q) = timers[q]
<1>1. q \in Index /\ timers[q] \in Entries /\ sift.i \in Index /\ sift.i \in Places
  BY Types DEF Move, IInv, EntriesAgree
<1>2. timers' = [timers EXCEPT ![sift.i] = timers[q]] /\ slots' = PlaceSlot(slots, sift.i, timers[q])
  BY DEF Move, Place
<1>3. timers' \in [Index -> Entries]
      /\ \A j \in Index : timers'[j] = IF j = sift.i THEN timers[q] ELSE timers[j]
  BY <1>1, <1>2, Types
<1>4. /\ slots' \in [Index -> SlotType]
      /\ \A s \in Index : slots'[s].gen = slots[s].gen
                             /\ (slots'[s].in_use <=> slots[s].in_use)
                             /\ slots'[s].heap_pos = IF s = timers[q].slot THEN sift.i
                                                      ELSE slots[s].heap_pos
  <2>1. slots \in [Index -> SlotType] /\ sift.i \in Index /\ timers[q] \in Entries
    BY Zenon, <1>1, Types
  <2>2. /\ PlaceSlot(slots, sift.i, timers[q]) \in [Index -> SlotType]
        /\ \A s \in Index :
             /\ PlaceSlot(slots, sift.i, timers[q])[s].gen = slots[s].gen
             /\ PlaceSlot(slots, sift.i, timers[q])[s].in_use = slots[s].in_use
             /\ PlaceSlot(slots, sift.i, timers[q])[s].heap_pos =
                    IF s = timers[q].slot THEN sift.i ELSE slots[s].heap_pos
    BY ZenonT(30), <2>1, PlaceSlotFacts
  <2> QED BY Zenon, <1>2, <2>2
<1>5. Places' = Places /\ ~Whole' /\ (\A j : Hole(j)' <=> j = q)
  BY DEF Move, Places, Whole, Hole
<1>6. Content(sift.i) = sift.e /\ Content(q) = timers[q]
  BY DEF Content, Move
<1>7. ASSUME NEW j \in Places
      PROVE  Content(j)' = IF j = sift.i THEN Content(q)
                           ELSE IF j = q THEN Content(sift.i) ELSE Content(j)
  <2>1. Content(j)' = IF j = q THEN sift.e ELSE timers'[j]
    BY <1>5 DEF Content, Move
  <2>2. j \in Index
    BY Types
  <2>3. j # sift.i => Content(j) = timers[j]
    BY DEF Content
  <2> QED BY <1>3, <1>6, <2>1, <2>2, <2>3 DEF Move
<1> QED
  BY <1>1, <1>3, <1>4, <1>5, <1>6, <1>7

(* The entry moved takes its slot along. *)
LEMMA MoveKeeps ==
    ASSUME IInv, NEW q, Move(q)
    PROVE  EntriesAgree' /\ SlotsInUse' /\ FreeAgrees' /\ Pending' = Pending
<1>1. Places' = Places /\ ~Whole' /\ (\A j : Hole(j)' <=> j = q)
      /\ sift.i \in Places /\ q \in Places /\ q # sift.i /\ sift'.i = q
      /\ sift'.then = sift.then /\ ~Whole /\ Places \subseteq Index
      /\ UNCHANGED <<timer_count, slots_count, free_list, issued>>
  BY MoveFacts, Types DEF Move
<1>2. \A j \in Places : Content(j)' = IF j = sift.i THEN Content(q)
                        ELSE IF j = q THEN Content(sift.i) ELSE Content(j)
  BY MoveFacts
<1>3. \A s \in Index : slots'[s].gen = slots[s].gen
                             /\ (slots'[s].in_use <=> slots[s].in_use)
                             /\ slots'[s].heap_pos = IF s = Content(q).slot THEN sift.i
                                                      ELSE slots[s].heap_pos
  BY MoveFacts
<1>4. \A j \in Places : Content(j).slot \in Index
  BY <1>1, Types
<1>5. \A j \in Places : \E k \in Places : Content(j)' = Content(k)
  BY <1>1, <1>2
<1>6. \A k \in Places : \E j \in Places : Content(j)' = Content(k)
  <2> SUFFICES ASSUME NEW k \in Places PROVE \E j \in Places : Content(j)' = Content(k)
    OBVIOUS
  <2>1. CASE k = q
    BY <1>1, <1>2, <2>1
  <2>2. CASE k = sift.i
    BY <1>1, <1>2, <2>2
  <2>3. CASE k # q /\ k # sift.i
    BY <1>1, <1>2, <2>3
  <2> QED BY <2>1, <2>2, <2>3
<1>7. \A j, k \in Places : Content(j).slot = Content(k).slot => j = k
  BY DEF IInv, EntriesAgree
<1>8. \A j, k \in Places' : (Content(j)').slot = (Content(k)').slot => j = k
  BY <1>1, <1>2, <1>7
<1>9. ASSUME NEW j \in Places
      PROVE  /\ slots'[(Content(j)').slot].in_use
             /\ (Content(j)').id = [gen |-> slots'[(Content(j)').slot].gen,
                                    low |-> (Content(j)').slot + 1]
             /\ j # q => slots'[(Content(j)').slot].heap_pos = j
  <2>1. PICK k \in Places : Content(j)' = Content(k)
    BY <1>5
  <2>2. /\ slots[Content(k).slot].in_use
        /\ Content(k).id = [gen |-> slots[Content(k).slot].gen, low |-> Content(k).slot + 1]
    BY DEF IInv, EntriesAgree
  <2>3. /\ slots'[Content(k).slot].in_use
        /\ Content(k).id = [gen |-> slots'[Content(k).slot].gen, low |-> Content(k).slot + 1]
    BY <1>3, <1>4, <2>2
  <2>4. ASSUME j # q PROVE slots'[(Content(j)').slot].heap_pos = j
    <3>1. CASE j = sift.i
      BY <1>1, <1>2, <1>3, <1>4, <2>4, <3>1
    <3>2. CASE j # sift.i
      <4>1. Content(j)' = Content(j) /\ Content(j).slot # Content(q).slot
        BY <1>1, <1>2, <1>7, <2>4, <3>2
      <4>2. slots[Content(j).slot].heap_pos = j
        BY Zenon, <3>2 DEF IInv, EntriesAgree, Hole
      <4> QED BY <1>3, <1>4, <4>1, <4>2
    <3> QED BY <3>1, <3>2
  <2> QED BY <2>1, <2>3, <2>4
<1>10. EntriesAgree'
  BY <1>1, <1>8, <1>9 DEF EntriesAgree
<1>11. SlotsInUse'
  <2>1. ASSUME NEW s \in Index, slots'[s].in_use
        PROVE  (\E j \in Places' : (Content(j)').slot = s) \/ sift'.then = s
    <3>1. (\E j \in Places : Content(j).slot = s) \/ sift.then = s
      BY <1>1, <1>3, <2>1 DEF IInv, SlotsInUse
    <3> QED BY <1>1, <1>6, <3>1
  <2>2. ASSUME sift'.then # NoSlot
        PROVE  slots'[sift'.then].in_use /\ \A j \in Places' : (Content(j)').slot # sift'.then
    <3>1. slots[sift.then].in_use /\ \A j \in Places : Content(j).slot # sift.then
      BY <1>1, <2>2 DEF IInv, SlotsInUse
    <3>2. sift.then \in Index
      BY <1>1, <2>2 DEF IInv, TypeOK
    <3> QED BY <1>1, <1>3, <1>5, <3>1, <3>2
  <2>3. \A s \in Index : s >= slots_count' => ~slots'[s].in_use
    BY <1>1, <1>3 DEF IInv, SlotsInUse
  <2> QED BY <1>1, <2>1, <2>2, <2>3 DEF SlotsInUse
<1>12. FreeAgrees'
  <2>1. \A k \in 1..Len(free_list) : free_list[k] \in Index
    BY Types
  <2>2. \A h \in issued : h.low \in 1..slots_count /\ h.gen <= slots[h.low - 1].gen
                          /\ h.low - 1 \in Index
    BY Zenon, IssuedFacts
  <2>3. \A h \in issued : h.gen <= slots'[h.low - 1].gen
    BY <1>3, <2>2
  <2>4. \A k \in 1..Len(free_list) :
          /\ free_list[k] < slots_count /\ ~slots'[free_list[k]].in_use
          /\ [gen |-> slots'[free_list[k]].gen, low |-> free_list[k] + 1] \notin issued
    BY <1>3, <2>1 DEF IInv, FreeAgrees
  <2> QED BY <1>1, <2>2, <2>3, <2>4 DEF IInv, FreeAgrees
<1>13. Pending' = Pending
  <2>1. Pending' = {[id |-> (Content(i)').id, deadline_ms |-> (Content(i)').deadline_ms] :
                      i \in Places}
    BY <1>1 DEF Pending, Places
  <2>2. Pending = {[id |-> Content(i).id, deadline_ms |-> Content(i).deadline_ms] :
                      i \in Places}
    BY DEF Pending, Places
  <2> QED BY <1>5, <1>6, <2>1, <2>2
<1> QED
  BY <1>10, <1>11, <1>12, <1>13
(* Where a parent and its children are. *)
LEMMA ParentFacts ==
    /\ \A p, c \in Nat : c \in Children(p) => p < c
    /\ \A p, q, c \in Nat : c \in Children(p) /\ c \in Children(q) => p = q
    /\ \A p, c \in Nat : c \in Children(p) <=> c = 2*p + 1 \/ c = 2*p + 2
  BY DEF Children

(* The deadlines, as numbers. *)
LEMMA DeadlineFacts ==
    ASSUME IInv
    PROVE  /\ \A i \in Index : timers[i].deadline_ms \in Nat /\ i \in Nat
           /\ sift.e.deadline_ms \in Nat
           /\ timer_count \in Nat
<1>1. \A i \in Index : timers[i] \in Entries /\ i \in Nat
  BY Types DEF Index
<1> QED
  BY <1>1, Types

(* One turn of heap_sift_up. *)
LEMMA SiftUpKeepsIInv ==
    ASSUME IInv, SiftUp
    PROVE  IInv' /\ Pending' = Pending /\ UNCHANGED <<now, pass, issued>>
<1>1. PICK p \in Index :
          /\ sift.i \in {2*p + 1, 2*p + 2}
          /\ timers[p].deadline_ms > sift.e.deadline_ms
          /\ timers' = Place(timers, sift.i, timers[p])
          /\ slots' = PlaceSlot(slots, sift.i, timers[p])
          /\ sift' = [sift EXCEPT !.i = p]
  BY DEF SiftUp
<1>2. sift.dir = "up" /\ UNCHANGED <<free_list, timer_count, slots_count, now, pass, issued>>
  BY SMTT(20), Z3T(20) DEF SiftUp
<1>3. sift.i \in Places /\ sift.i \in Index /\ sift.i \in Nat /\ p \in Nat
  BY <1>2, DeadlineFacts, Types DEF Whole, IInv, EntriesAgree
<1>4. sift.i \in Children(p) /\ p < sift.i /\ p \in Places
  BY <1>1, <1>3, DeadlineFacts DEF Children, Places
<1>5. sift'.i = p /\ sift'.dir = "up" /\ sift'.e = sift.e /\ sift'.then = sift.then
      /\ sift' \in [dir : {"none", "up", "down"}, i : Index, e : Entries,
                 moved : BOOLEAN, then : Index \cup {NoSlot}]
  BY <1>1, <1>2 DEF IInv, TypeOK
<1>6. Move(p)
  BY <1>1, <1>2, <1>3, <1>4, <1>5 DEF Move, Whole
<1>7. /\ EntriesAgree' /\ SlotsInUse' /\ FreeAgrees' /\ Pending' = Pending
  BY <1>6, MoveKeeps
<1>8. /\ timers' \in [Index -> Entries] /\ slots' \in [Index -> SlotType]
      /\ \A j \in Index : timers'[j] = IF j = sift.i THEN timers[p] ELSE timers[j]
      /\ \A j : Hole(j)' <=> j = p
  BY <1>6, MoveFacts
<1>9. TypeOK'
  BY <1>2, <1>5, <1>8 DEF IInv, TypeOK, SlotType
<1>10. Ordered'
  <2>0. \A j : Hole(j) <=> j = sift.i
    BY <1>2 DEF Hole, Whole
  <2>1. /\ \A a, c \in Index : c \in Children(a) /\ c < timer_count /\ a # sift.i /\ c # sift.i
             => timers[a].deadline_ms <= timers[c].deadline_ms
        /\ \A a, c \in Index : sift.i \in Children(a) /\ c \in Children(sift.i)
             /\ c < timer_count => timers[a].deadline_ms <= timers[c].deadline_ms
    BY <1>2, <2>0 DEF IInv, Ordered, Early, Whole
  <2>2. p < timer_count
    BY <1>4, DeadlineFacts DEF Places
  <2>3. ASSUME NEW a \in Index, NEW c \in Index, c \in Children(a), c < timer_count,
               a # p, c # p
        PROVE  timers'[a].deadline_ms <= timers'[c].deadline_ms
    <3>0. c # sift.i
      BY <1>3, <1>4, <2>3, DeadlineFacts, ParentFacts
    <3>1. CASE a = sift.i
      BY <1>4, <1>8, <2>1, <2>3, <3>0, <3>1
    <3>2. CASE a # sift.i
      BY <1>8, <2>1, <2>3, <3>0, <3>2
    <3> QED BY <3>1, <3>2
  <2>4. ASSUME NEW a \in Index, NEW c \in Index, p \in Children(a), c \in Children(p),
               c < timer_count
        PROVE  timers'[a].deadline_ms <= timers'[c].deadline_ms
    <3>1. a < p /\ a # sift.i /\ p # sift.i
      BY <1>3, <1>4, <2>4, DeadlineFacts, ParentFacts
    <3>2. timers[a].deadline_ms <= timers[p].deadline_ms
      BY <2>1, <2>2, <2>4, <3>1
    <3>3. c # sift.i => timers[p].deadline_ms <= timers[c].deadline_ms
      BY <2>1, <2>4, <3>1
    <3> QED BY <1>8, <3>1, <3>2, <3>3, DeadlineFacts
  <2>5. ASSUME NEW c \in Index, c \in Children(p), c < timer_count
        PROVE  sift.e.deadline_ms <= timers'[c].deadline_ms
    <3>1. c # sift.i => timers[p].deadline_ms <= timers[c].deadline_ms
      BY <1>4, <2>1, <2>5, <1>3
    <3> QED BY <1>1, <1>8, <3>1, DeadlineFacts
  <2> QED BY <1>2, <1>5, <1>8, <2>3, <2>4, <2>5 DEF Ordered, Early
<1> QED
  BY <1>2, <1>7, <1>9, <1>10 DEF IInv, TimerAssumption

(* One turn of heap_sift_down. *)
LEMMA SiftDownKeepsIInv ==
    ASSUME IInv, SiftDown
    PROVE  IInv' /\ Pending' = Pending /\ UNCHANGED <<now, pass, issued>>
<1>1. PICK q \in Index :
          /\ Smallest(sift.i, q) /\ timers[q].deadline_ms < sift.e.deadline_ms
          /\ timers' = Place(timers, sift.i, timers[q])
          /\ slots' = PlaceSlot(slots, sift.i, timers[q])
          /\ sift' = [sift EXCEPT !.i = q, !.moved = TRUE]
  BY Zenon DEF SiftDown
<1>2. sift.dir = "down" /\ UNCHANGED <<free_list, timer_count, slots_count, now, pass, issued>>
  BY SMTT(20), Z3T(20) DEF SiftDown
<1>3. sift.i \in Places /\ sift.i \in Index /\ sift.i \in Nat /\ q \in Nat
  BY <1>2, DeadlineFacts, Types DEF Whole, IInv, EntriesAgree
<1>4. q \in Children(sift.i) /\ sift.i < q /\ q \in Places /\ q < timer_count
  BY <1>1, <1>3, DeadlineFacts DEF Children, Places, Smallest
<1>5. sift'.i = q /\ sift'.dir = "down" /\ sift'.e = sift.e /\ sift'.then = sift.then
      /\ sift' \in [dir : {"none", "up", "down"}, i : Index, e : Entries,
                 moved : BOOLEAN, then : Index \cup {NoSlot}]
  BY Zenon, <1>1, <1>2 DEF IInv, TypeOK
<1>6. Move(q)
  BY <1>1, <1>2, <1>3, <1>4, <1>5 DEF Move, Whole
<1>7. /\ EntriesAgree' /\ SlotsInUse' /\ FreeAgrees' /\ Pending' = Pending
  BY <1>6, MoveKeeps
<1>8. /\ timers' \in [Index -> Entries] /\ slots' \in [Index -> SlotType]
      /\ \A j \in Index : timers'[j] = IF j = sift.i THEN timers[q] ELSE timers[j]
      /\ \A j : Hole(j)' <=> j = q
  BY <1>6, MoveFacts
<1>9. TypeOK'
  BY <1>2, <1>5, <1>8 DEF IInv, TypeOK, SlotType
<1>10. Ordered'
  <2>0. \A j : Hole(j) <=> j = sift.i
    BY <1>2 DEF Hole, Whole
  <2>1. /\ \A a, c \in Index : c \in Children(a) /\ c < timer_count /\ a # sift.i /\ c # sift.i
             => timers[a].deadline_ms <= timers[c].deadline_ms
        /\ \A a, c \in Index : sift.i \in Children(a) /\ c \in Children(sift.i)
             /\ c < timer_count => timers[a].deadline_ms <= timers[c].deadline_ms
    BY <1>2, <2>0 DEF IInv, Ordered, Early, Whole
  <2>2. \A c \in Index : c \in Children(sift.i) /\ c < timer_count =>
          timers[q].deadline_ms <= timers[c].deadline_ms
    BY <1>1 DEF Smallest, Children
  <2>3. ASSUME NEW a \in Index, NEW c \in Index, c \in Children(a), c < timer_count,
               a # q, c # q
        PROVE  timers'[a].deadline_ms <= timers'[c].deadline_ms
    <3>1. CASE a = sift.i
      <4>1. c # sift.i
        BY <1>3, <2>3, <3>1, DeadlineFacts, ParentFacts
      <4> QED BY <1>8, <2>2, <2>3, <3>1, <4>1
    <3>2. CASE c = sift.i
      <4>1. a # sift.i
        BY <1>3, <2>3, <3>2, DeadlineFacts, ParentFacts
      <4> QED BY <1>4, <1>8, <2>1, <2>3, <3>2, <4>1
    <3>3. CASE a # sift.i /\ c # sift.i
      BY <1>8, <2>1, <2>3, <3>3
    <3> QED BY <3>1, <3>2, <3>3
  <2>4. ASSUME NEW a \in Index, q \in Children(a)
        PROVE  a = sift.i
    BY <1>3, <1>4, <2>4, DeadlineFacts, ParentFacts
  <2>5. ASSUME NEW c \in Index, c \in Children(q), c < timer_count
        PROVE  timers'[sift.i].deadline_ms <= timers'[c].deadline_ms
    <3>1. c # sift.i /\ q # sift.i
      BY <1>3, <1>4, <2>5, DeadlineFacts, ParentFacts
    <3> QED BY <1>3, <1>8, <2>1, <2>5, <3>1
  <2>6. timers'[sift.i].deadline_ms <= sift.e.deadline_ms
    BY SMTT(20), Z3T(20), <1>1, <1>3, <1>8, DeadlineFacts
  <2> QED BY <1>2, <1>5, <1>8, <2>3, <2>4, <2>5, <2>6 DEF Ordered, Early
<1> QED
  BY SMTT(20), Z3T(20), <1>2, <1>7, <1>9, <1>10 DEF IInv, TimerAssumption
-----------------------------------------------------------------------------
(* The end of a sift: the entry is placed at the hole. *)

(* The entry in hand is put into the hole. *)
LEMMA PlacedFacts ==
    ASSUME IInv, ~Whole, timers' = Place(timers, sift.i, sift.e), timer_count' = timer_count
    PROVE  LET sl == PlaceSlot(slots, sift.i, sift.e) IN
           /\ timers' \in [Index -> Entries] /\ SameUse(sl)
           /\ \A j \in Index : timers'[j] = IF j = sift.i THEN sift.e ELSE timers[j]
           /\ \A j \in Places : timers'[j] = Content(j)
           /\ \A j \in Places : sl[Content(j).slot].heap_pos = j
           /\ Places' = Places
<1> DEFINE sl == PlaceSlot(slots, sift.i, sift.e)
<1>1. sift.i \in Index /\ sift.i \in Places /\ sift.e \in Entries /\ Places \subseteq Index
  BY Types DEF IInv, EntriesAgree
<1>2. timers' \in [Index -> Entries]
      /\ \A j \in Index : timers'[j] = IF j = sift.i THEN sift.e ELSE timers[j]
  BY <1>1, Types DEF Place
<1>3. \A j \in Places : timers'[j] = Content(j)
  BY <1>1, <1>2 DEF Content
<1>4. /\ sl \in [Index -> SlotType]
      /\ \A s \in Index : /\ sl[s].gen = slots[s].gen
                          /\ sl[s].in_use = slots[s].in_use
                          /\ sl[s].heap_pos = IF s = sift.e.slot THEN sift.i
                                              ELSE slots[s].heap_pos
  <2>1. slots \in [Index -> SlotType]
    BY Types
  <2> QED BY <1>1, <2>1, PlaceSlotFacts
<1>5. SameUse(sl)
  BY <1>4 DEF SameUse
<1> HIDE DEF sl
<1>6. ASSUME NEW j \in Places PROVE sl[Content(j).slot].heap_pos = j
  <2>1. Content(j).slot \in Index /\ Content(sift.i) = sift.e
    BY <1>1, Types DEF Content
  <2>2. CASE j = sift.i
    BY <1>4, <2>1, <2>2
  <2>3. CASE j # sift.i
    <3>1. Content(j).slot # sift.e.slot
      BY <1>1, <2>1, <2>3 DEF IInv, EntriesAgree
    <3>2. slots[Content(j).slot].heap_pos = j
      BY Zenon, <2>3 DEF IInv, EntriesAgree, Hole
    <3> QED BY SMTT(20), Z3T(20), <1>4, <2>1, <3>1, <3>2
  <2> QED BY <2>2, <2>3
<1>7. Places' = Places
  BY DEF Places
<1> QED
  BY SMTT(20), Z3T(20), <1>2, <1>3, <1>5, <1>6, <1>7 DEF sl

(* The pending timers are those of the same contents. *)
LEMMA SamePending ==
    ASSUME Places' = Places, \A j \in Places : Content(j)' = Content(j)
    PROVE  Pending' = Pending
<1>1. Pending' = {[id |-> (Content(i)').id, deadline_ms |-> (Content(i)').deadline_ms] :
                    i \in Places}
  BY Zenon DEF Pending, Places
<1>2. Pending = {[id |-> Content(i).id, deadline_ms |-> Content(i).deadline_ms] :
                    i \in Places}
  BY DEF Pending, Places
<1> QED
  BY <1>1, <1>2

(* No sift is in progress once the entry is placed. *)
LEMMA NoSiftType ==
    ASSUME TimerAssumption
    PROVE  /\ NoSift \in [dir : {"none", "up", "down"}, i : Index, e : Entries,
                          moved : BOOLEAN, then : Index \cup {NoSlot}]
           /\ NoSift.dir = "none" /\ NoEntry \in Entries
<1>1. 0 \in Index /\ 0 \in 0..TIMER_GEN_MAX /\ 0 \in 0..TIMER_MAX_SLOTS
  BY DEF TimerAssumption, Index
<1>2. NoEntry \in Entries
  BY <1>1 DEF NoEntry, Entries, Handles
<1> QED
  BY <1>1, <1>2 DEF NoSift

(* The free list and the handles when only places in the heap changed. *)
LEMMA SameUseKeepsFree ==
    ASSUME IInv, SameUse(slots'), UNCHANGED <<free_list, issued, slots_count>>
    PROVE  FreeAgrees'
<1>1. \A k \in 1..Len(free_list) : free_list[k] \in Index
  BY Types
<1>2. \A h \in issued : h.low \in 1..slots_count /\ h.gen <= slots[h.low - 1].gen
                        /\ h.low - 1 \in Index
  <2>1. \A h \in issued : h.low \in 1..slots_count /\ h.gen <= slots[h.low - 1].gen
    BY DEF IInv, FreeAgrees
  <2>2. slots_count \in 0..TIMER_MAX_SLOTS /\ TIMER_MAX_SLOTS \in Nat
    BY Types
  <2> QED BY <2>1, <2>2 DEF Index
<1>3. \A h \in issued : h.gen <= slots'[h.low - 1].gen
  BY <1>2 DEF SameUse
<1>4. \A k \in 1..Len(free_list) :
        /\ free_list[k] < slots_count /\ ~slots'[free_list[k]].in_use
        /\ [gen |-> slots'[free_list[k]].gen, low |-> free_list[k] + 1] \notin issued
  BY SMTT(20), Z3T(20), <1>1 DEF IInv, FreeAgrees, SameUse
<1> QED
  BY <1>2, <1>3, <1>4 DEF IInv, FreeAgrees

(* The end of either sift loop. *)
LEMMA DoneKeepsIInv ==
    ASSUME IInv, ~Whole, timers' = Place(timers, sift.i, sift.e),
           Done(PlaceSlot(slots, sift.i, sift.e)),
           UNCHANGED <<timer_count, slots_count, now, pass, issued>>,
           \A p, c \in Index : c \in Children(p) /\ c < timer_count =>
               timers'[p].deadline_ms <= timers'[c].deadline_ms
    PROVE  IInv' /\ Pending' = Pending
<1>1. PICK sl : /\ sl = PlaceSlot(slots, sift.i, sift.e) /\ SameUse(sl) /\ Done(sl)
                /\ \A j \in Places : sl[Content(j).slot].heap_pos = j
  BY SMTT(20), Z3T(20), PlacedFacts
<1>2. /\ timers' \in [Index -> Entries] /\ Places' = Places
      /\ \A j \in Places : timers'[j] = Content(j)
  BY SMTT(20), Z3T(20), PlacedFacts
<1>3. sift' = NoSift /\ sift'.dir = "none" /\ Whole'
      /\ sift' \in [dir : {"none", "up", "down"}, i : Index, e : Entries,
                 moved : BOOLEAN, then : Index \cup {NoSlot}]
  BY SMTT(20), Z3T(20), <1>1, NoSiftType DEF Done, Whole, IInv
<1>4. \A j \in Places : Content(j)' = Content(j)
  BY <1>2, <1>3 DEF Content
<1>5. \A j \in Places : Content(j).slot \in Index
  BY Types
<1>6. sl \in [Index -> SlotType]
      /\ \A s \in Index : sl[s].gen = slots[s].gen /\ (sl[s].in_use <=> slots[s].in_use)
  BY Zenon, <1>1 DEF SameUse
<1>7. /\ slots' \in [Index -> SlotType] /\ free_list' \in Seq(Index) /\ FreeAgrees'
      /\ \A j \in Places : slots'[Content(j).slot] = sl[Content(j).slot]
      /\ \A s \in Index : slots'[s].in_use =>
           slots[s].in_use /\ \E j \in Places : Content(j).slot = s
  <2>1. CASE sift.then = NoSlot
    <3>1. slots' = sl /\ free_list' = free_list
      BY <1>1, <2>1 DEF Done
    <3>2. SameUse(slots')
      BY <1>1, <3>1
    <3>3. FreeAgrees'
      BY <3>1, <3>2, SameUseKeepsFree
    <3>4. \A s \in Index : slots[s].in_use => \E j \in Places : Content(j).slot = s
      BY SMTT(20), Z3T(20), <2>1, Types DEF IInv, SlotsInUse
    <3> QED BY ZenonT(30), <1>6, <3>1, <3>3, <3>4, Types
  <2>2. CASE sift.then # NoSlot
    <3>1. sift.then \in Index /\ slots[sift.then].in_use
          /\ \A j \in Places : Content(j).slot # sift.then
      BY SMTT(20), Z3T(20), <2>2 DEF IInv, TypeOK, SlotsInUse
    <3>2. SlotFree(sl, sift.then)
      BY <1>1, <2>2 DEF Done
    <3>3. FreeAgrees'
      BY Zenon, <1>1, <3>1, <3>2, FreeKeepsFree
    <3>4. /\ slots' \in [Index -> SlotType] /\ free_list' \in Seq(Index)
          /\ \A t \in Index : t # sift.then => slots'[t] = sl[t]
          /\ ~slots'[sift.then].in_use
      <4>1. /\ TIMER_GEN_MAX \in Nat /\ free_list \in Seq(Index)
            /\ sl \in [Index -> SlotType] /\ sift.then \in Index
        BY Zenon, <1>6, <3>1, Types
      <4> QED BY Zenon, <3>2, <4>1, SlotFreeFacts
    <3>5. \A s \in Index : slots'[s].in_use =>
            slots[s].in_use /\ \E j \in Places : Content(j).slot = s
      BY Zenon, <1>6, <3>4 DEF IInv, SlotsInUse
    <3> QED BY SMTT(20), Z3T(20), <1>5, <3>1, <3>3, <3>4, <3>5
  <2> QED BY Zenon, <2>1, <2>2
<1>8. EntriesAgree'
  <2>1. ASSUME NEW j \in Places
        PROVE  /\ slots'[Content(j).slot].in_use
               /\ Content(j).id = [gen |-> slots'[Content(j).slot].gen, low |-> Content(j).slot + 1]
               /\ slots'[Content(j).slot].heap_pos = j
    <3>1. /\ slots[Content(j).slot].in_use
          /\ Content(j).id = [gen |-> slots[Content(j).slot].gen, low |-> Content(j).slot + 1]
      BY DEF IInv, EntriesAgree
    <3> QED BY ZenonT(30), <1>1, <1>5, <1>6, <1>7, <3>1
  <2>2. \A j, k \in Places : Content(j).slot = Content(k).slot => j = k
    BY DEF IInv, EntriesAgree
  <2>3. ASSUME NEW j \in Places'
        PROVE  /\ slots'[(Content(j)').slot].in_use
               /\ (Content(j)').id = [gen |-> slots'[(Content(j)').slot].gen,
                                       low |-> (Content(j)').slot + 1]
               /\ slots'[(Content(j)').slot].heap_pos = j
    BY SMTT(20), Z3T(20), <1>2, <1>4, <2>1
  <2>4. \A j, k \in Places' : (Content(j)').slot = (Content(k)').slot => j = k
    BY SMTT(20), Z3T(20), <1>2, <1>4, <2>2
  <2> QED BY Zenon, <1>3, <2>3, <2>4 DEF EntriesAgree
<1>9. SlotsInUse'
  <2>1. \A s \in Index : slots'[s].in_use => \E j \in Places' : (Content(j)').slot = s
    BY Zenon, <1>2, <1>4, <1>7
  <2>2. \A s \in Index : s >= slots_count' => ~slots'[s].in_use
    BY Zenon, <1>7 DEF IInv, SlotsInUse
  <2> QED BY Zenon, <1>3, <2>1, <2>2 DEF SlotsInUse
<1>10. Ordered'
  BY Zenon, <1>3 DEF Ordered, Early, Whole
<1>11. TypeOK'
  BY <1>2, <1>3, <1>7 DEF IInv, TypeOK, SlotType
<1>12. Pending' = Pending
  BY <1>2, <1>4, SamePending
<1> QED
  BY SMTT(20), Z3T(20), <1>7, <1>8, <1>9, <1>10, <1>11, <1>12 DEF IInv, TimerAssumption

(* heap_sift_up stops where the parent is not later. *)
LEMMA SiftUpDoneKeepsIInv ==
    ASSUME IInv, SiftUpDone
    PROVE  IInv' /\ Pending' = Pending /\ UNCHANGED <<now, pass, issued>>
<1>1. /\ sift.dir = "up" /\ ~Whole /\ timers' = Place(timers, sift.i, sift.e)
      /\ Done(PlaceSlot(slots, sift.i, sift.e))
      /\ UNCHANGED <<timer_count, slots_count, now, pass, issued>>
      /\ \A p \in Index : sift.i \in Children(p) =>
           timers[p].deadline_ms <= sift.e.deadline_ms
  BY DEF SiftUpDone, Whole, Children
<1>2. \A j \in Index : timers'[j] = IF j = sift.i THEN sift.e ELSE timers[j]
  BY <1>1, PlacedFacts
<1>3. ASSUME NEW p \in Index, NEW c \in Index, c \in Children(p), c < timer_count
      PROVE  timers'[p].deadline_ms <= timers'[c].deadline_ms
  <2>0. p # c
    BY SMTT(20), Z3T(20), <1>3, DeadlineFacts, ParentFacts
  <2>1. CASE p = sift.i
    BY ZenonT(30), <1>1, <1>2, <1>3, <2>0, <2>1 DEF IInv, Ordered
  <2>2. CASE c = sift.i
    BY <1>1, <1>2, <1>3, <2>0, <2>2
  <2>3. CASE p # sift.i /\ c # sift.i
    BY <1>2, <1>3, <2>3 DEF IInv, Ordered, Early, Hole
  <2> QED BY <2>1, <2>2, <2>3
<1> QED
  BY <1>1, <1>3, DoneKeepsIInv

(* Where no smallest child is earlier than the entry, no child is. *)
LEMMA SmallestIsEnough ==
    ASSUME IInv, ~Whole,
           \A c \in Index : Smallest(sift.i, c) => timers[c].deadline_ms >= sift.e.deadline_ms
    PROVE  \A c \in Index : c \in Children(sift.i) /\ c < timer_count =>
               sift.e.deadline_ms <= timers[c].deadline_ms
<1> DEFINE l == 2*sift.i + 1
           r == 2*sift.i + 2
<1>1. sift.i \in Nat /\ timer_count \in Nat /\ timer_count <= TIMER_MAX_SLOTS
      /\ TIMER_MAX_SLOTS \in Nat /\ sift.e.deadline_ms \in Nat
  BY Types, DeadlineFacts
<1>2. l \in Nat /\ r \in Nat /\ l < r /\ l # r /\ Children(sift.i) = {l, r}
  BY <1>1 DEF Children
<1>3. \A c \in Nat : c < timer_count => c \in Index /\ timers[c].deadline_ms \in Nat
  BY <1>1, DeadlineFacts DEF Index
<1>4. \A c : Smallest(sift.i, c) <=>
        /\ c \in {l, r} /\ c < timer_count
        /\ \A b \in {l, r} :
              b < timer_count => timers[c].deadline_ms <= timers[b].deadline_ms
        /\ c = r => timers[c].deadline_ms < timers[l].deadline_ms
  BY DEF Smallest
<1> HIDE DEF l, r
<1>5. CASE ~(l < timer_count)
  BY <1>1, <1>2, <1>5 DEF Index
<1>6. CASE l < timer_count /\ ~(r < timer_count)
  <2>1. Smallest(sift.i, l)
    BY <1>2, <1>3, <1>4, <1>6
  <2> QED BY <1>1, <1>2, <1>3, <1>6, <2>1
<1>7. CASE l < timer_count /\ r < timer_count /\ timers[l].deadline_ms <= timers[r].deadline_ms
  <2>1. Smallest(sift.i, l)
    BY <1>2, <1>3, <1>4, <1>7
  <2> QED BY <1>1, <1>2, <1>3, <1>7, <2>1
<1>8. CASE l < timer_count /\ r < timer_count /\ ~(timers[l].deadline_ms <= timers[r].deadline_ms)
  <2>0. timers[r].deadline_ms < timers[l].deadline_ms
    BY <1>2, <1>3, <1>8
  <2>1. Smallest(sift.i, r)
    BY <1>2, <1>3, <1>4, <1>8, <2>0
  <2> QED BY SMTT(20), Z3T(20), <1>1, <1>2, <1>3, <1>8, <2>0, <2>1
<1> QED
  BY <1>5, <1>6, <1>7, <1>8

(* heap_sift_down stops where no child is earlier. *)
LEMMA SiftDownDoneKeepsIInv ==
    ASSUME IInv, SiftDownDone
    PROVE  IInv' /\ Pending' = Pending /\ UNCHANGED <<now, pass, issued>>
<1>1. /\ sift.dir = "down" /\ ~Whole /\ timers' = Place(timers, sift.i, sift.e)
      /\ UNCHANGED <<timer_count, slots_count, now, pass, issued>>
  BY SMTT(20), Z3T(20) DEF SiftDownDone, Whole
<1>2. /\ timers' \in [Index -> Entries] /\ Places' = Places
      /\ \A j \in Index : timers'[j] = IF j = sift.i THEN sift.e ELSE timers[j]
      /\ \A j \in Places : timers'[j] = Content(j)
  BY <1>1, PlacedFacts
<1>3. \A c \in Index : c \in Children(sift.i) /\ c < timer_count =>
        sift.e.deadline_ms <= timers[c].deadline_ms
  BY <1>1, SmallestIsEnough DEF SiftDownDone
<1>4. CASE sift.moved
  <2>1. ASSUME NEW p \in Index, NEW c \in Index, c \in Children(p), c < timer_count
        PROVE  timers'[p].deadline_ms <= timers'[c].deadline_ms
    <3>0. p # c
      BY <2>1, DeadlineFacts, ParentFacts
    <3>1. CASE p = sift.i
      BY SMTT(20), Z3T(20), <1>2, <1>3, <2>1, <3>0, <3>1
    <3>2. CASE c = sift.i
      BY SMTT(20), Z3T(20), <1>1, <1>2, <1>4, <2>1, <3>0, <3>2 DEF IInv, Ordered
    <3>3. CASE p # sift.i /\ c # sift.i
      BY <1>2, <2>1, <3>3 DEF IInv, Ordered, Early, Hole
    <3> QED BY <3>1, <3>2, <3>3
  <2>2. Done(PlaceSlot(slots, sift.i, sift.e))
    BY <1>4 DEF SiftDownDone
  <2> QED BY SMTT(20), Z3T(20), <1>1, <2>1, <2>2, DoneKeepsIInv
<1>5. CASE ~sift.moved
  <2>1. slots' = PlaceSlot(slots, sift.i, sift.e) /\ sift' = [sift EXCEPT !.dir = "up"]
        /\ free_list' = free_list
    BY <1>5 DEF SiftDownDone
  <2>2. /\ sift'.dir = "up" /\ sift'.i = sift.i /\ sift'.e = sift.e /\ sift'.then = sift.then
        /\ sift' \in [dir : {"none", "up", "down"}, i : Index, e : Entries,
                 moved : BOOLEAN, then : Index \cup {NoSlot}]
    BY Zenon, <2>1 DEF IInv, TypeOK
  <2>3. ~Whole' /\ \A j : Hole(j)' <=> Hole(j)
    BY <1>1, <2>2 DEF Whole, Hole
  <2>4. SameUse(slots') /\ \A j \in Places : slots'[Content(j).slot].heap_pos = j
    BY SMTT(20), Z3T(20), <1>1, <2>1, PlacedFacts
  <2>5. \A j \in Places : Content(j)' = Content(j) /\ Content(j).slot \in Index
    BY <1>2, <2>2, <2>3, Types DEF Content
  <2>6. FreeAgrees'
    BY <1>1, <2>1, <2>4, SameUseKeepsFree
  <2>7. EntriesAgree'
    <3>1. ASSUME NEW j \in Places
          PROVE  /\ slots'[Content(j).slot].in_use
                 /\ Content(j).id = [gen |-> slots'[Content(j).slot].gen, low |-> Content(j).slot + 1]
      BY SMTT(20), Z3T(20), <2>4, <2>5 DEF IInv, EntriesAgree, SameUse
    <3>2. \A j, k \in Places : Content(j).slot = Content(k).slot => j = k
      BY SMTT(20), Z3T(20) DEF IInv, EntriesAgree
    <3>3. sift.i \in Places
      BY <1>1 DEF IInv, EntriesAgree
    <3>4. ASSUME NEW j \in Places'
          PROVE  /\ slots'[(Content(j)').slot].in_use
                 /\ (Content(j)').id = [gen |-> slots'[(Content(j)').slot].gen,
                                         low |-> (Content(j)').slot + 1]
                 /\ slots'[(Content(j)').slot].heap_pos = j
      BY SMTT(20), Z3T(20), <1>2, <2>4, <2>5, <3>1
    <3>5. \A j, k \in Places' : (Content(j)').slot = (Content(k)').slot => j = k
      BY SMTT(20), Z3T(20), <1>2, <2>5, <3>2
    <3> QED BY ZenonT(30), <1>2, <2>2, <3>3, <3>4, <3>5 DEF EntriesAgree
  <2>8. SlotsInUse'
    <3>1. ASSUME NEW s \in Index, slots'[s].in_use
          PROVE  (\E j \in Places : Content(j).slot = s) \/ sift.then = s
      BY <2>4, <3>1 DEF IInv, SlotsInUse, SameUse
    <3>2. ASSUME sift.then # NoSlot
          PROVE  slots'[sift.then].in_use /\ \A j \in Places : Content(j).slot # sift.then
      <4>1. sift.then \in Index
        BY <3>2 DEF IInv, TypeOK
      <4> QED BY <1>1, <2>4, <3>2, <4>1 DEF IInv, SlotsInUse, SameUse
    <3>3. \A s \in Index : s >= slots_count' => ~slots'[s].in_use
      BY Zenon, <1>1, <2>4 DEF IInv, SlotsInUse, SameUse
    <3> QED BY SMTT(20), Z3T(20), <1>2, <2>2, <2>3, <2>5, <3>1, <3>2, <3>3 DEF SlotsInUse
  <2>9. Ordered'
    <3>1. ASSUME NEW p \in Index, NEW c \in Index, c \in Children(p), c < timer_count,
                 p # sift.i, c # sift.i
          PROVE  timers'[p].deadline_ms <= timers'[c].deadline_ms
      BY <1>2, <3>1 DEF IInv, Ordered, Early, Hole
    <3>2. ASSUME NEW p \in Index, NEW c \in Index, sift.i \in Children(p),
                 c \in Children(sift.i), c < timer_count
          PROVE  timers'[p].deadline_ms <= timers'[c].deadline_ms
      <4>1. p # sift.i /\ c # sift.i /\ sift.i \in Index
        BY <3>2, DeadlineFacts, ParentFacts, Types
      <4> QED BY SMTT(20), Z3T(20), <1>1, <1>2, <3>2, <4>1 DEF IInv, Ordered, Early
    <3>3. ASSUME NEW c \in Index, c \in Children(sift.i), c < timer_count
          PROVE  sift.e.deadline_ms <= timers'[c].deadline_ms
      <4>1. c # sift.i
        BY <3>3, DeadlineFacts, ParentFacts, Types
      <4> QED BY <1>2, <1>3, <3>3, <4>1
    <3> QED BY <1>1, <2>2, <2>3, <3>1, <3>2, <3>3 DEF Ordered, Early, Hole
  <2>10. TypeOK'
    BY Zenon, <1>1, <1>2, <2>1, <2>2, <2>4 DEF IInv, TypeOK, SlotType, SameUse
  <2>11. Pending' = Pending
    BY <1>2, <2>5, SamePending
  <2> QED BY <1>1, <2>6, <2>7, <2>8, <2>9, <2>10, <2>11 DEF IInv, TimerAssumption
<1> QED
  BY <1>4, <1>5
-----------------------------------------------------------------------------
(* cloak_reactor_add_timer. *)

(* While a slot is free the heap has room: every entry has its own slot. *)
LEMMA Room ==
    ASSUME NumberFacts, IInv, Whole, NEW s \in Index, ~slots[s].in_use
    PROVE  timer_count < TIMER_MAX_SLOTS
<1>1. timer_count \in 0..TIMER_MAX_SLOTS /\ TIMER_MAX_SLOTS \in Nat \ {0}
  BY DEF IInv, TypeOK, TimerAssumption
<1> SUFFICES ASSUME timer_count = TIMER_MAX_SLOTS PROVE FALSE
  BY <1>1
<1>2. Places = Index
  BY DEF Places, Index
<1> DEFINE f == [j \in Index |-> Content(j).slot]
<1>3. \A j \in Index : f[j] \in Index \ {s}
  <2>1. \A j \in Index : Content(j).slot \in Index /\ slots[Content(j).slot].in_use
    BY Zenon, <1>2, Types DEF IInv, EntriesAgree
  <2> QED BY <2>1
<1>4. \A j, k \in Index : f[j] = f[k] => j = k
  BY <1>2 DEF IInv, EntriesAgree
<1>5. f \in [Index -> Index \ {s}]
  BY Zenon, <1>3
<1> QED
  BY Zenon, <1>4, <1>5 DEF NumberFacts

(* cloak_reactor_add_timer, the slot being allocated. *)
LEMMA InsertKeepsIInv ==
    ASSUME NumberFacts, IInv, Whole, NEW s \in Index, ~slots[s].in_use, NEW d \in Nat,
           [gen |-> slots[s].gen, low |-> s + 1] \notin issued, Insert(s, slots, d),
           slots_count' \in 0..TIMER_MAX_SLOTS, s < slots_count', slots_count <= slots_count',
           free_list' \in Seq(Index),
           \A k \in 1..Len(free_list') : /\ free_list'[k] # s
               /\ \E m \in 1..Len(free_list) : free_list'[k] = free_list[m],
           \A k, m \in 1..Len(free_list') : free_list'[k] = free_list'[m] => k = m
    PROVE  LET id == [gen |-> slots[s].gen, low |-> s + 1] IN
           /\ IInv' /\ id \in Handles /\ issued' = issued \cup {id}
           /\ Pending' = Pending \cup {[id |-> id, deadline_ms |-> now + d]}
           /\ UNCHANGED <<now, pass>>
<1>0. PICK n \in Index : n = timer_count
  <2>1. timer_count < TIMER_MAX_SLOTS
    BY Room
  <2>2. timer_count \in Nat /\ TIMER_MAX_SLOTS \in Nat
    BY Types
  <2> QED BY <2>1, <2>2 DEF Index
<1> DEFINE id == [gen |-> slots[s].gen, low |-> s + 1]
           e == [deadline_ms |-> now + d, id |-> id, slot |-> s]
           r == [slots[s] EXCEPT !.in_use = TRUE]
           sl == [slots EXCEPT ![s] = r]
<1>1. /\ timers' = Place(timers, n, e) /\ slots' = PlaceSlot(sl, n, e)
      /\ timer_count' = n + 1 /\ issued' = issued \cup {id} /\ UNCHANGED <<now, pass>>
      /\ sift' = [dir |-> "up", i |-> n, e |-> e, moved |-> FALSE, then |-> NoSlot]
  BY <1>0 DEF Insert
<1>2. n \in Index /\ n \in Nat /\ Index \subseteq Nat
  BY DEF Index
<1>3. id \in Handles /\ id.gen = slots[s].gen /\ id.low = s + 1
  <2>1. slots[s].gen \in 0..TIMER_GEN_MAX /\ TIMER_MAX_SLOTS \in Nat
    BY Types
  <2>2. s + 1 \in 0..TIMER_MAX_SLOTS
    BY <2>1 DEF Index
  <2> QED BY <2>1, <2>2 DEF Handles
<1> HIDE DEF id
<1>4. e \in Entries /\ e.slot = s /\ e.id = id /\ e.deadline_ms = now + d
  <2>1. now + d \in Nat
    BY DEF IInv, TypeOK
  <2> QED BY <1>3, <2>1 DEF Entries
<1>5. r \in SlotType /\ r.gen = slots[s].gen /\ r.in_use
  <2>1. slots[s] \in SlotType
    BY Types
  <2> QED BY Zenon, <2>1 DEF SlotType
<1> HIDE DEF e, r
<1>6. sl \in [Index -> SlotType] /\ sl[s] = r
      /\ \A t \in Index : t # s => sl[t] = slots[t]
  BY SMTT(20), Z3T(20), <1>5, Types
<1> HIDE DEF sl
<1>7. /\ slots' \in [Index -> SlotType]
      /\ \A t \in Index : slots'[t].gen = slots[t].gen
                          /\ (t # s => (slots'[t].in_use <=> slots[t].in_use)
                                        /\ slots'[t].heap_pos = slots[t].heap_pos)
      /\ slots'[s].in_use /\ slots'[s].heap_pos = n
  <2>0. sl \in [Index -> SlotType] /\ n \in Index /\ e \in Entries
    BY <1>4, <1>6
  <2>1. /\ slots' \in [Index -> SlotType]
        /\ \A t \in Index : /\ slots'[t].gen = sl[t].gen
                            /\ slots'[t].in_use = sl[t].in_use
                            /\ slots'[t].heap_pos = IF t = e.slot THEN n ELSE sl[t].heap_pos
    <3>1. slots' = PlaceSlot(sl, n, e)
      BY Zenon, <1>1
    <3>2. /\ PlaceSlot(sl, n, e) \in [Index -> SlotType]
          /\ \A t \in Index :
               /\ PlaceSlot(sl, n, e)[t].gen = sl[t].gen
               /\ PlaceSlot(sl, n, e)[t].in_use = sl[t].in_use
               /\ PlaceSlot(sl, n, e)[t].heap_pos = IF t = e.slot THEN n ELSE sl[t].heap_pos
      BY ZenonT(30), <2>0, PlaceSlotFacts
    <3> QED BY Zenon, <3>1, <3>2
  <2> QED BY <1>4, <1>5, <1>6, <2>1
<1>8. timers' \in [Index -> Entries] /\ timers'[n] = e
      /\ \A j \in Index : j # n => timers'[j] = timers[j]
  <2>1. timers \in [Index -> Entries] /\ timers' = Place(timers, n, e)
        /\ n \in Index /\ e \in Entries
    BY Zenon, <1>1, <1>2, <1>4, Types
  <2> QED BY <2>1 DEF Place
<1>9. /\ sift' \in [dir : {"none", "up", "down"}, i : Index, e : Entries,
                    moved : BOOLEAN, then : Index \cup {NoSlot}]
      /\ sift'.dir = "up" /\ sift'.i = n /\ sift'.e = e /\ sift'.then = NoSlot
  BY <1>1, <1>2, <1>4
<1>10. ~Whole' /\ \A j : Hole(j)' <=> j = n
  BY SMTT(20), Z3T(20), <1>9 DEF Whole, Hole
<1>11. Places' = Places \cup {n} /\ n \notin Places /\ Places \subseteq Index
  <2>1. n = timer_count /\ timer_count' = n + 1 /\ n \in Index /\ n \in Nat
        /\ Places \subseteq Index
    BY Zenon, <1>0, <1>1, <1>2, Types
  <2> QED BY <2>1 DEF Places
<1>12. Content(n)' = e /\ \A j \in Places : Content(j)' = Content(j) /\ Content(j) = timers[j]
  BY Zenon, <1>8, <1>9, <1>10, <1>11 DEF Content
<1>13. \A j \in Places : /\ Content(j).slot \in Index /\ Content(j).slot # s
                         /\ slots[Content(j).slot].in_use
  BY Zenon, <1>11, Types DEF IInv, EntriesAgree
<1>14. TypeOK'
  <2>1. timer_count' \in 0..TIMER_MAX_SLOTS
    <3>1. TIMER_MAX_SLOTS \in Nat
      BY ZenonT(30), Types
    <3> QED BY Zenon, <1>1, <1>2, <3>1, Counting
  <2>2. issued' \subseteq Handles /\ now' \in Nat /\ pass' \in [on : BOOLEAN, now : Nat]
    BY SMTT(20), Z3T(20), <1>1, <1>3 DEF IInv, TypeOK
  <2> QED BY Zenon, <1>7, <1>8, <1>9, <2>1, <2>2 DEF TypeOK, SlotType
<1>15. EntriesAgree'
  <2>1. ASSUME NEW j \in Places
        PROVE  /\ slots'[Content(j).slot].in_use
               /\ Content(j).id = [gen |-> slots'[Content(j).slot].gen, low |-> Content(j).slot + 1]
               /\ slots'[Content(j).slot].heap_pos = j
    <3>1. /\ Content(j).id = [gen |-> slots[Content(j).slot].gen, low |-> Content(j).slot + 1]
          /\ slots[Content(j).slot].heap_pos = j
      BY DEF IInv, EntriesAgree, Hole
    <3> QED BY ZenonT(30), <1>7, <1>13, <3>1
  <2>2. slots'[e.slot].in_use /\ e.id = [gen |-> slots'[e.slot].gen, low |-> e.slot + 1]
    BY Zenon, <1>4, <1>7 DEF id
  <2>3. \A j, k \in Places' : (Content(j)').slot = (Content(k)').slot => j = k
    <3>1. \A j, k \in Places : Content(j).slot = Content(k).slot => j = k
      BY DEF IInv, EntriesAgree
    <3>2. \A j \in Places' : j = n \/ j \in Places
      BY Zenon, <1>11
    <3>3. \A j \in Places : (Content(j)').slot = Content(j).slot /\ Content(j).slot # s
      BY Zenon, <1>12, <1>13
    <3>4. (Content(n)').slot = s
      BY Zenon, <1>4, <1>12
    <3> QED BY ZenonT(30), <3>1, <3>2, <3>3, <3>4
  <2>4. sift'.i \in Places'
    BY Zenon, <1>9, <1>11
  <2>5. ASSUME NEW j \in Places'
        PROVE  /\ slots'[(Content(j)').slot].in_use
               /\ (Content(j)').id = [gen |-> slots'[(Content(j)').slot].gen,
                                       low |-> (Content(j)').slot + 1]
               /\ ~Hole(j)' => slots'[(Content(j)').slot].heap_pos = j
    <3>1. CASE j = n
      BY Zenon, <1>10, <1>12, <2>2, <3>1
    <3>2. CASE j # n
      <4>1. j \in Places /\ Content(j)' = Content(j)
        BY <1>11, <1>12, <3>2
      <4> QED BY <2>1, <4>1
    <3> QED BY Zenon, <3>1, <3>2
  <2> QED BY Zenon, <2>3, <2>4, <2>5 DEF EntriesAgree
<1>20. /\ TIMER_MAX_SLOTS \in Nat /\ slots_count \in 0..TIMER_MAX_SLOTS
        /\ slots_count \in Nat /\ slots_count' \in Nat /\ s \in Nat
  <2>1. TIMER_MAX_SLOTS \in Nat /\ slots_count \in 0..TIMER_MAX_SLOTS
    BY Zenon, Types
  <2> QED BY Zenon, <2>1, Counting
<1>16. SlotsInUse'
  <2>1. ASSUME NEW t \in Index, slots'[t].in_use
        PROVE  \E j \in Places' : (Content(j)').slot = t
    <3>1. CASE t = s
      BY SMTT(20), Z3T(20), <1>4, <1>11, <1>12, <3>1
    <3>2. CASE t # s
      <4>1. PICK j \in Places : Content(j).slot = t
        BY ZenonT(30), <1>7, <2>1, <3>2 DEF IInv, SlotsInUse
      <4> QED BY Zenon, <1>11, <1>12, <4>1
    <3> QED BY SMTT(20), Z3T(20), <3>1, <3>2
  <2>2. \A t \in Index : t >= slots_count' => ~slots'[t].in_use
    <3> SUFFICES ASSUME NEW t \in Index, t >= slots_count' PROVE ~slots'[t].in_use
      OBVIOUS
    <3>1. t # s /\ t >= slots_count
      BY Zenon, <1>2, <1>20, Counting
    <3> QED BY <1>7, <3>1 DEF IInv, SlotsInUse
  <2> QED BY <1>9, <2>1, <2>2 DEF SlotsInUse
<1>17. FreeAgrees'
  <2>1. ASSUME NEW k \in 1..Len(free_list')
        PROVE  /\ free_list'[k] < slots_count' /\ ~slots'[free_list'[k]].in_use
               /\ [gen |-> slots'[free_list'[k]].gen, low |-> free_list'[k] + 1] \notin issued'
    <3>1. PICK m \in 1..Len(free_list) : free_list'[k] = free_list[m]
      OBVIOUS
    <3>2. PICK t \in Index : t = free_list[m]
      BY ZenonT(30), Types, InTheList
    <3>3. /\ t < slots_count /\ ~slots[t].in_use
          /\ [gen |-> slots[t].gen, low |-> t + 1] \notin issued
      BY SMTT(20), Z3T(20), <3>2 DEF IInv, FreeAgrees
    <3>4. t # s /\ t \in Nat /\ s \in Nat /\ slots_count \in Nat /\ slots_count' \in Nat
      BY ZenonT(30), <1>2, <1>20, <3>1, <3>2
    <3>5. [gen |-> slots[t].gen, low |-> t + 1] # id
      <4>1. t + 1 # s + 1
        BY <3>4
      <4> QED BY <4>1 DEF id
    <3>6. t < slots_count'
      BY <3>3, <3>4
    <3>7. ~slots'[t].in_use /\ [gen |-> slots'[t].gen, low |-> t + 1] \notin issued'
      BY Zenon, <1>1, <1>7, <3>3, <3>4, <3>5
    <3> QED BY Zenon, <3>1, <3>2, <3>6, <3>7
  <2>2. ASSUME NEW h \in issued'
        PROVE  h.low \in 1..slots_count' /\ h.gen <= slots'[h.low - 1].gen
    <3>1. CASE h = id
      <4>0. h.low = s + 1
        BY Zenon, <1>3, <3>1
      <4>1. h.low - 1 = s /\ h.low \in 1..slots_count'
        BY SMTT(20), Z3T(20), <4>0, <1>2, <1>20
      <4>2. h.gen = slots'[s].gen /\ h.gen \in Nat
        BY SMTT(20), Z3T(20), <1>3, <1>7, <3>1, Types
      <4> QED BY SMTT(20), Z3T(20), <4>1, <4>2
    <3>2. CASE h \in issued
      <4>1. h.low \in 1..slots_count /\ h.gen <= slots[h.low - 1].gen
        BY <3>2 DEF IInv, FreeAgrees
      <4>2. h.low \in 1..slots_count' /\ h.low - 1 \in Index
        BY Zenon, <1>20, <4>1, Counting
      <4> QED BY Zenon, <1>7, <4>1, <4>2
    <3> QED BY ZenonT(30), <1>1, <3>1, <3>2
  <2> QED BY Zenon, <2>1, <2>2 DEF FreeAgrees
<1>18. Ordered'
  <2>1. ASSUME NEW p \in Index, NEW c \in Index, c \in Children(p), c < timer_count',
               p # n, c # n
        PROVE  timers'[p].deadline_ms <= timers'[c].deadline_ms
    <3>1. c < timer_count
      BY SMTT(20), Z3T(20), <1>0, <1>1, <1>2, <2>1
    <3> QED BY ZenonT(30), <1>8, <2>1, <3>1 DEF IInv, Ordered, Early, Hole
  <2>2. ASSUME NEW c \in Index, c \in Children(n), c < timer_count'
        PROVE  FALSE
    <3>1. n < c /\ c < n + 1 /\ n \in Nat /\ c \in Nat
      BY ZenonT(30), <1>1, <1>2, <2>2, ParentFacts
    <3> QED BY Zenon, <1>20, <3>1, Counting
  <2> QED BY Zenon, <1>9, <1>10, <2>1, <2>2 DEF Ordered, Early
<1>19. Pending' = Pending \cup {[id |-> id, deadline_ms |-> now + d]}
  <2>1. Pending' = {[id |-> (Content(i)').id, deadline_ms |-> (Content(i)').deadline_ms] :
                      i \in Places'}
    BY Zenon DEF Pending, Places
  <2>2. Pending = {[id |-> Content(i).id, deadline_ms |-> Content(i).deadline_ms] :
                      i \in Places}
    BY ZenonT(30) DEF Pending, Places
  <2>3. [id |-> id, deadline_ms |-> now + d] =
          [id |-> (Content(n)').id, deadline_ms |-> (Content(n)').deadline_ms]
    BY <1>4, <1>12
  <2> QED BY SMTT(20), Z3T(20), <1>11, <1>12, <2>1, <2>2, <2>3
<1> QED
  BY SMTT(20), Z3T(20), <1>1, <1>3, <1>14, <1>15, <1>16, <1>17, <1>18, <1>19
     DEF IInv, TimerAssumption, id

(* A slot from the free list. *)
LEMMA AddRecycledKeepsIInv ==
    ASSUME NumberFacts, IInv, NEW d \in Delays, AddRecycled(d)
    PROVE  IInv' /\ \E id \in Handles : Promise!Add(id, d)
<1>1. /\ Whole /\ free_list # <<>> /\ free_list' = Tail(free_list)
      /\ Insert(free_list[1], slots, d) /\ slots_count' = slots_count
  BY ZenonT(30) DEF AddRecycled
<1>2. free_list \in Seq(Index) /\ Len(free_list) \in Nat /\ 1 \in 1..Len(free_list)
  BY <1>1, Types
<1>3. PICK s \in Index : s = free_list[1]
  BY SMTT(20), Z3T(20), <1>2
<1>4. /\ ~slots[s].in_use /\ s < slots_count
      /\ [gen |-> slots[s].gen, low |-> s + 1] \notin issued
  BY Zenon, <1>2, <1>3 DEF IInv, FreeAgrees
<1>5. /\ free_list' \in Seq(Index) /\ Len(free_list') = Len(free_list) - 1
      /\ \A k \in 1..Len(free_list') : /\ k + 1 \in 1..Len(free_list)
                                       /\ free_list'[k] = free_list[k + 1]
  BY SMTT(20), Z3T(20), <1>1, <1>2
<1>6. ASSUME NEW k \in 1..Len(free_list')
      PROVE  /\ free_list'[k] # s
             /\ \E m \in 1..Len(free_list) : free_list'[k] = free_list[m]
  <2>1. k + 1 # 1 /\ k + 1 \in 1..Len(free_list) /\ free_list'[k] = free_list[k + 1]
    BY <1>5
  <2> QED BY ZenonT(30), <1>2, <1>3, <2>1 DEF IInv, FreeAgrees
<1>7. ASSUME NEW k \in 1..Len(free_list'), NEW m \in 1..Len(free_list'),
             free_list'[k] = free_list'[m]
      PROVE  k = m
  <2>1. k + 1 = m + 1
    BY <1>5, <1>7 DEF IInv, FreeAgrees
  <2> QED BY SMTT(20), Z3T(20), <2>1
<1>8. d \in Nat /\ slots_count' \in 0..TIMER_MAX_SLOTS /\ s < slots_count'
      /\ slots_count <= slots_count'
  BY SMTT(20), Z3T(20), <1>1, <1>4, Types DEF IInv, TimerAssumption
<1> DEFINE id == [gen |-> slots[s].gen, low |-> s + 1]
<1>9. /\ IInv' /\ id \in Handles /\ issued' = issued \cup {id}
      /\ Pending' = Pending \cup {[id |-> id, deadline_ms |-> now + d]}
      /\ UNCHANGED <<now, pass>>
  BY SMTT(20), Z3T(20), <1>1, <1>3, <1>4, <1>5, <1>6, <1>7, <1>8, InsertKeepsIInv
<1>10. id \notin issued
  BY <1>4
<1> HIDE DEF id
<1>11. Promise!Add(id, d)
  BY <1>9, <1>10 DEF Promise!Add
<1> QED
  BY <1>9, <1>11

(* A slot never used. *)
LEMMA AddNewKeepsIInv ==
    ASSUME NumberFacts, IInv, NEW d \in Delays, AddNew(d)
    PROVE  IInv' /\ \E id \in Handles : Promise!Add(id, d)
<1>1. /\ Whole /\ free_list = <<>> /\ free_list' = free_list
      /\ slots_count < TIMER_MAX_SLOTS /\ slots_count' = slots_count + 1
      /\ Insert(slots_count, slots, d)
  BY DEF AddNew
<1>2. slots_count \in 0..TIMER_MAX_SLOTS /\ TIMER_MAX_SLOTS \in Nat /\ d \in Nat
  BY Types DEF IInv, TimerAssumption
<1>3. PICK s \in Index : s = slots_count
  BY <1>1, <1>2 DEF Index
<1>4. ~slots[s].in_use
  BY <1>2, <1>3 DEF IInv, SlotsInUse
<1>5. [gen |-> slots[s].gen, low |-> s + 1] \notin issued
  <2> SUFFICES ASSUME NEW h \in issued, h.low = s + 1 PROVE FALSE
    OBVIOUS
  <2>1. h.low \in 1..slots_count
    BY DEF IInv, FreeAgrees
  <2> QED BY <1>2, <1>3, <2>1
<1>6. free_list' \in Seq(Index) /\ 1..Len(free_list') = {}
  BY <1>1
<1>7. slots_count' \in 0..TIMER_MAX_SLOTS /\ s < slots_count' /\ slots_count <= slots_count'
  BY SMTT(20), Z3T(20), <1>1, <1>2, <1>3
<1> DEFINE id == [gen |-> slots[s].gen, low |-> s + 1]
<1>8. /\ IInv' /\ id \in Handles /\ issued' = issued \cup {id}
      /\ Pending' = Pending \cup {[id |-> id, deadline_ms |-> now + d]}
      /\ UNCHANGED <<now, pass>>
  BY SMTT(20), Z3T(20), <1>1, <1>2, <1>3, <1>4, <1>5, <1>6, <1>7, InsertKeepsIInv
<1>9. id \notin issued
  BY <1>5
<1> HIDE DEF id
<1>10. Promise!Add(id, d)
  BY <1>8, <1>9 DEF Promise!Add
<1> QED
  BY <1>8, <1>10
-----------------------------------------------------------------------------
(* No entry is earlier than the root: the least place of one that is would *)
(* have a later parent.                                                    *)
LEMMA RootIsEarliest ==
    ASSUME NumberFacts, IInv, Whole, NEW j \in Places
    PROVE  0 \in Places /\ timers[0].deadline_ms <= timers[j].deadline_ms
<1>1. timer_count \in Nat /\ Places \subseteq Index /\ Index \subseteq Nat
  BY Types DEF Index
<1>2. 0 \in Places
  BY <1>1 DEF Places
<1>3. \A i \in Places : timers[i].deadline_ms \in Nat
  BY <1>1, DeadlineFacts
<1> DEFINE T == {i \in Places : timers[i].deadline_ms < timers[0].deadline_ms}
<1>4. ASSUME T # {} PROVE FALSE
  <2>1. T \subseteq Nat
    BY Zenon, <1>1
  <2>2. PICK x \in T : \A y \in T : x <= y
    <3> HIDE DEF T
    <3> QED BY Zenon, <1>4, <2>1 DEF NumberFacts
  <2>3. x \in Places /\ x \in Nat /\ x # 0 /\ timers[x].deadline_ms < timers[0].deadline_ms
    <3>1. x \in Places /\ timers[x].deadline_ms < timers[0].deadline_ms
      BY Zenon, <2>2
    <3>2. timers[x].deadline_ms \in Nat /\ x \in Nat
      BY Zenon, <1>1, <1>3, <3>1
    <3> QED BY <3>1, <3>2
  <2>4. PICK p \in Nat : (x = 2*p + 1 \/ x = 2*p + 2) /\ p < x
    <3>1. (x - 1) \div 2 \in Nat /\ (x - 1) \div 2 < x
          /\ (x = 2*((x - 1) \div 2) + 1 \/ x = 2*((x - 1) \div 2) + 2)
      BY <2>3
    <3> QED BY <3>1
  <2>5. p \in Places /\ x < timer_count /\ x \in Children(p)
    BY SMTT(20), Z3T(20), <1>1, <2>3, <2>4 DEF Places, Children
  <2>6. timers[p].deadline_ms <= timers[x].deadline_ms
    BY <1>1, <2>3, <2>5 DEF IInv, Ordered, Early, Hole
  <2>7. p \in T
    BY <1>2, <1>3, <2>3, <2>5, <2>6
  <2>8. x <= p
    BY SMTT(20), Z3T(20), <2>2, <2>7
  <2> QED BY <2>3, <2>4, <2>8
<1> QED
  BY <1>2, <1>3, <1>4
-----------------------------------------------------------------------------
(* heap_remove_at. *)

(* The entries after the removal are the entries before it, less one. *)
LEMMA RemovedFacts ==
    ASSUME IInv, Whole, NEW pos \in Places, NEW s, RemoveAt(pos, s),
           NEW n \in Index, n = timer_count - 1
    PROVE  /\ timers' \in [Index -> Entries] /\ timer_count' = n
           /\ n \in Places /\ Places' = Places \ {n} /\ timers[n] \in Entries
           /\ \A j \in Index : j # n => timers'[j] = IF j = pos THEN timers[n] ELSE timers[j]
           /\ \A j \in Places' : Content(j)' = IF j = pos THEN timers[n] ELSE timers[j]
           /\ \A j \in Places : Content(j) = timers[j]
<1>1. /\ timer_count' = n /\ timers' = Place(Place(timers, pos, timers[n]), n, NoEntry)
      /\ pos = n => sift' = sift
      /\ pos # n => sift'.dir = "down" /\ sift'.i = pos /\ sift'.e = timers[n]
  BY SMTT(20), Z3T(20) DEF RemoveAt
<1>2. n \in Places /\ n \in Nat /\ Places \subseteq Index /\ Index \subseteq Nat /\ timer_count \in Nat
  BY Types DEF Places, Index
<1>3. Places' = Places \ {n}
  BY <1>1, <1>2 DEF Places
<1>4. timers[n] \in Entries /\ NoEntry \in Entries
  BY Types, NoSiftType DEF IInv
<1> DEFINE t1 == [timers EXCEPT ![pos] = timers[n]]
<1>5. t1 \in [Index -> Entries]
      /\ \A j \in Index : t1[j] = IF j = pos THEN timers[n] ELSE timers[j]
  BY <1>2, <1>4, Types
<1>6. timers' = [t1 EXCEPT ![n] = NoEntry]
  BY <1>1 DEF Place
<1> HIDE DEF t1
<1>7. timers' \in [Index -> Entries] /\ \A j \in Index : j # n => timers'[j] = t1[j]
  BY <1>4, <1>5, <1>6
<1>8. \A j \in Index : j # n => timers'[j] = IF j = pos THEN timers[n] ELSE timers[j]
  BY <1>5, <1>7
<1>9. \A j \in Places' : Content(j)' = IF j = pos THEN timers[n] ELSE timers[j]
  <2> SUFFICES ASSUME NEW j \in Places'
               PROVE  Content(j)' = IF j = pos THEN timers[n] ELSE timers[j]
    OBVIOUS
  <2>1. j \in Index /\ j # n
    BY <1>2, <1>3
  <2>2. CASE pos = n
    <3>1. Content(j)' = timers'[j]
      BY <1>1, <2>2 DEF Content, Whole
    <3> QED BY <1>8, <2>1, <3>1
  <2>3. CASE pos # n
    <3>1. Content(j)' = IF j = pos THEN timers[n] ELSE timers'[j]
      BY <1>1, <2>3 DEF Content, Whole
    <3> QED BY <1>8, <2>1, <3>1
  <2> QED BY <2>2, <2>3
<1>10. \A j \in Places : Content(j) = timers[j]
  BY ZenonT(30) DEF Content
<1> QED
  BY SMTT(20), Z3T(20), <1>1, <1>2, <1>3, <1>4, <1>7, <1>8, <1>9, <1>10

(* The pending timers are those before it, less the one removed. *)
LEMMA RemovedPending ==
    ASSUME IInv, Whole, NEW pos \in Places, NEW s, RemoveAt(pos, s)
    PROVE  Pending' = {t \in Pending : t.id # timers[pos].id}
<1>0. PICK n \in Index : n = timer_count - 1
  BY Types DEF Places, Index
<1>1. /\ n \in Places /\ Places' = Places \ {n}
      /\ \A j \in Places' : Content(j)' = IF j = pos THEN timers[n] ELSE timers[j]
      /\ \A j \in Places : Content(j) = timers[j]
  BY ZenonT(30), <1>0, RemovedFacts
<1>2. \A k \in Places : timers[k].id = timers[pos].id => k = pos
  <2> SUFFICES ASSUME NEW k \in Places, timers[k].id = timers[pos].id PROVE k = pos
    BY Zenon
  <2>1. timers[k].slot \in Nat /\ timers[pos].slot \in Nat
    BY Types DEF Index
  <2>2. timers[k].id.low = timers[k].slot + 1 /\ timers[pos].id.low = timers[pos].slot + 1
    <3>1. \A j \in Places : timers[j].id = [gen |-> slots[timers[j].slot].gen,
                                           low |-> timers[j].slot + 1]
      BY <1>1 DEF IInv, EntriesAgree
    <3>2. ASSUME NEW j \in Places PROVE timers[j].id.low = timers[j].slot + 1
      <4>1. PICK g, l : timers[j].id = [gen |-> g, low |-> l] /\ l = timers[j].slot + 1
        BY <3>1, Zenon
      <4>2. [gen |-> g, low |-> l].low = l
        OBVIOUS
      <4> QED BY <4>1, <4>2, Zenon
    <3> QED BY Zenon, <3>2
  <2>3. timers[k].slot = timers[pos].slot
    BY <2>1, <2>2
  <2> QED BY <1>1, <2>3 DEF IInv, EntriesAgree
<1>3. \A j \in Places' : \E k \in Places : k # pos /\ Content(j)' = timers[k]
  BY <1>1
<1>4. \A k \in Places : k # pos => \E j \in Places' : Content(j)' = timers[k]
  <2> SUFFICES ASSUME NEW k \in Places, k # pos
               PROVE  \E j \in Places' : Content(j)' = timers[k]
    OBVIOUS
  <2>1. CASE k = n
    BY <1>1, <2>1
  <2>2. CASE k # n
    BY SMTT(20), Z3T(20), <1>1, <2>2
  <2> QED BY <2>1, <2>2
<1> DEFINE tm(e) == [id |-> e.id, deadline_ms |-> e.deadline_ms]
<1>5. \A t : t \in Pending' <=> \E j \in Places' : t = tm(Content(j)')
  BY Zenon DEF Pending, Places
<1>6. \A t : t \in Pending <=> \E j \in Places : t = tm(timers[j])
  <2>1. Pending = {tm(Content(j)) : j \in Places}
    BY DEF Pending, Places
  <2> QED BY Zenon, <1>1, <2>1
<1>7. \A e : tm(e).id = e.id
  OBVIOUS
<1> HIDE DEF tm
<1> QED
  BY SMTT(20), Z3T(20), <1>2, <1>3, <1>4, <1>5, <1>6, <1>7

(* The last entry replaces the one removed. *)
LEMMA RemoveAtKeepsIInv ==
    ASSUME IInv, Whole, NEW pos \in Places, NEW s \in Index, timers[pos].slot = s,
           RemoveAt(pos, s), pass' = pass
    PROVE  IInv'
<1>0. PICK n \in Index : n = timer_count - 1
  BY SMTT(20), Z3T(20), Types DEF Places, Index
<1>1. /\ timers' \in [Index -> Entries] /\ timer_count' = n /\ n \in Places
      /\ Places' = Places \ {n} /\ timers[n] \in Entries
      /\ \A j \in Index : j # n => timers'[j] = IF j = pos THEN timers[n] ELSE timers[j]
      /\ \A j \in Places' : Content(j)' = IF j = pos THEN timers[n] ELSE timers[j]
      /\ \A j \in Places : Content(j) = timers[j]
  BY <1>0, RemovedFacts
<1>2. UNCHANGED <<slots_count, now, issued, pass>>
  BY ZenonT(30) DEF RemoveAt
<1>3. /\ \A j \in Places : /\ timers[j].slot \in Index /\ slots[timers[j].slot].in_use
                           /\ timers[j].id = [gen |-> slots[timers[j].slot].gen,
                                              low |-> timers[j].slot + 1]
                           /\ slots[timers[j].slot].heap_pos = j
      /\ \A j, k \in Places : timers[j].slot = timers[k].slot => j = k
  <2>1. /\ \A j \in Places : LET c == Content(j) IN
             /\ slots[c.slot].in_use
             /\ c.id = [gen |-> slots[c.slot].gen, low |-> c.slot + 1]
             /\ slots[c.slot].heap_pos = j
        /\ \A j, k \in Places : Content(j).slot = Content(k).slot => j = k
    BY Zenon DEF IInv, EntriesAgree, Hole
  <2>2. \A j \in Places : timers[j].slot \in Index
    BY ZenonT(30), Types
  <2> QED BY <1>1, <2>1, <2>2
<1>4. \A t \in Index : slots[t].in_use => \E j \in Places : timers[j].slot = t
  BY SMTT(20), Z3T(20), <1>1 DEF IInv, SlotsInUse
<1>5. n \in Nat /\ Index \subseteq Nat /\ Places \subseteq Index /\ pos \in Index
      /\ timer_count \in Nat /\ slots \in [Index -> SlotType] /\ pos <= n
  BY SMTT(20), Z3T(20), <1>0, Types DEF Index, Places
<1>6. \A p, c \in Index : c \in Children(p) /\ c < timer_count =>
        timers[p].deadline_ms <= timers[c].deadline_ms
  BY DEF IInv, Ordered, Early, Hole
<1>7. ASSUME NEW p \in Index, NEW c \in Index, c \in Children(p), c < n
      PROVE  p < c /\ p # n /\ c # n /\ c < timer_count
  BY SMTT(20), Z3T(20), <1>0, <1>5, <1>7, ParentFacts
<1>8. timer_count' \in 0..TIMER_MAX_SLOTS
  BY <1>0, <1>1, Types DEF Index
<1>9. CASE pos = n
  <2>1. SlotFree(slots, s) /\ sift' = sift /\ Whole'
    <3>1. SlotFree(slots, s) /\ sift' = sift
      BY Zenon, <1>0, <1>9 DEF RemoveAt
    <3> QED BY Zenon, <3>1 DEF Whole
  <2>2. SameUse(slots)
    BY SMTT(20), Z3T(20), <1>5 DEF SameUse
  <2>3. FreeAgrees'
    BY Zenon, <1>2, <1>3, <2>1, <2>2, FreeKeepsFree
  <2>4. /\ slots' \in [Index -> SlotType] /\ free_list' \in Seq(Index)
        /\ \A t \in Index : t # s => slots'[t] = slots[t]
        /\ ~slots'[s].in_use
    <3>1. TIMER_GEN_MAX \in Nat /\ free_list \in Seq(Index)
      BY Types
    <3> QED BY ZenonT(30), <1>5, <2>1, <3>1, SlotFreeFacts
  <2>5. \A j \in Places' : Content(j)' = timers[j] /\ j \in Places /\ timers[j].slot # s
    BY Zenon, <1>1, <1>3, <1>9
  <2>6. EntriesAgree'
    <3>1. ASSUME NEW j \in Places'
          PROVE  /\ slots'[timers[j].slot].in_use
                 /\ timers[j].id = [gen |-> slots'[timers[j].slot].gen, low |-> timers[j].slot + 1]
                 /\ slots'[timers[j].slot].heap_pos = j
      <4>1. j \in Places /\ slots'[timers[j].slot] = slots[timers[j].slot]
        BY Zenon, <1>3, <2>4, <2>5
      <4> QED BY ZenonT(30), <1>3, <4>1
    <3>2. \A j, k \in Places' : (Content(j)').slot = (Content(k)').slot => j = k
      <4> SUFFICES ASSUME NEW j \in Places', NEW k \in Places',
                          (Content(j)').slot = (Content(k)').slot
                   PROVE  j = k
        OBVIOUS
      <4>1. Content(j)' = timers[j] /\ Content(k)' = timers[k] /\ j \in Places /\ k \in Places
        BY Zenon, <2>5
      <4>2. \A a, b \in Places : timers[a].slot = timers[b].slot => a = b
        BY Zenon, <1>3
      <4>3. timers[j].slot = timers[k].slot
        BY ZenonT(30), <4>1
      <4> QED BY Zenon, <4>1, <4>2, <4>3
    <3>3. ASSUME NEW j \in Places'
          PROVE  LET c == Content(j)' IN
                 /\ slots'[c.slot].in_use
                 /\ c.id = [gen |-> slots'[c.slot].gen, low |-> c.slot + 1]
                 /\ slots'[c.slot].heap_pos = j
      <4>1. Content(j)' = timers[j]
        BY Zenon, <2>5, <3>3
      <4> QED BY <3>1, <3>3, <4>1
    <3> QED BY Zenon, <2>1, <3>2, <3>3 DEF EntriesAgree
  <2>7. SlotsInUse'
    <3>1. ASSUME NEW t \in Index, slots'[t].in_use
          PROVE  \E j \in Places' : (Content(j)').slot = t
      <4>1. t # s /\ slots[t].in_use
        BY Zenon, <2>4, <3>1
      <4>2. PICK j \in Places : timers[j].slot = t
        BY Zenon, <1>4, <4>1
      <4>3. j # n
        BY ZenonT(30), <1>9, <4>1, <4>2
      <4> QED BY Zenon, <1>1, <2>5, <4>2, <4>3
    <3>2. \A t \in Index : t >= slots_count' => ~slots'[t].in_use
      BY SMTT(20), Z3T(20), <1>2, <2>4 DEF IInv, SlotsInUse
    <3> QED BY Zenon, <2>1, <3>1, <3>2 DEF SlotsInUse
  <2>8. Ordered'
    <3>1. ASSUME NEW p \in Index, NEW c \in Index, c \in Children(p), c < n
          PROVE  timers'[p].deadline_ms <= timers'[c].deadline_ms
      <4>1. p # n /\ c # n /\ c < timer_count
        BY Zenon, <1>7, <3>1
      <4> QED BY SMTT(20), Z3T(20), <1>1, <1>6, <1>9, <3>1, <4>1
    <3> QED BY ZenonT(30), <1>1, <2>1, <3>1 DEF Ordered, Early, Whole
  <2>9. TypeOK'
    BY Zenon, <1>1, <1>2, <1>8, <2>1, <2>4 DEF IInv, TypeOK, SlotType
  <2> QED BY SMTT(20), Z3T(20), <2>3, <2>6, <2>7, <2>8, <2>9 DEF IInv, TimerAssumption
<1>10. CASE pos # n
  <2>1. /\ slots' = PlaceSlot(slots, pos, timers[n]) /\ free_list' = free_list
        /\ sift' = [dir |-> "down", i |-> pos, e |-> timers[n], moved |-> FALSE, then |-> s]
    BY Zenon, <1>0, <1>10 DEF RemoveAt
  <2>2. /\ sift' \in [dir : {"none", "up", "down"}, i : Index, e : Entries,
                      moved : BOOLEAN, then : Index \cup {NoSlot}]
        /\ sift'.dir = "down" /\ sift'.i = pos /\ sift'.e = timers[n] /\ sift'.then = s
        /\ ~sift'.moved
    BY Zenon, <1>1, <1>5, <2>1
  <2>3. ~Whole' /\ \A j : Hole(j)' <=> j = pos
    BY Zenon, <2>2 DEF Whole, Hole
  <2>4. /\ slots' \in [Index -> SlotType]
        /\ \A t \in Index : /\ slots'[t].gen = slots[t].gen
                            /\ slots'[t].in_use = slots[t].in_use
                            /\ slots'[t].heap_pos = IF t = timers[n].slot THEN pos
                                                    ELSE slots[t].heap_pos
    <3>1. slots \in [Index -> SlotType] /\ timers[n] \in Entries /\ pos \in Index
      BY SMTT(20), Z3T(20), <1>1, <1>5
    <3>2. /\ PlaceSlot(slots, pos, timers[n]) \in [Index -> SlotType]
          /\ \A t \in Index :
               /\ PlaceSlot(slots, pos, timers[n])[t].gen = slots[t].gen
               /\ PlaceSlot(slots, pos, timers[n])[t].in_use = slots[t].in_use
               /\ PlaceSlot(slots, pos, timers[n])[t].heap_pos =
                      IF t = timers[n].slot THEN pos ELSE slots[t].heap_pos
      BY SMTT(20), Z3T(20), <3>1, PlaceSlotFacts
    <3> QED BY ZenonT(30), <2>1, <3>2
  <2>5. SameUse(slots')
    BY Zenon, <2>4 DEF SameUse
  <2>6. FreeAgrees'
    BY ZenonT(30), <1>2, <2>1, <2>5, SameUseKeepsFree
  <2>7. ASSUME NEW j \in Places'
        PROVE  \E k \in Places : k # pos /\ Content(j)' = timers[k] /\ (j # pos => k = j /\ k # n)
                                 /\ (j = pos => k = n)
    BY SMTT(20), Z3T(20), <1>1, <1>10
  <2>8. EntriesAgree'
    <3>1. ASSUME NEW j \in Places'
          PROVE  /\ slots'[(Content(j)').slot].in_use
                 /\ (Content(j)').id = [gen |-> slots'[(Content(j)').slot].gen,
                                         low |-> (Content(j)').slot + 1]
                 /\ j # pos => slots'[(Content(j)').slot].heap_pos = j
      <4>1. PICK k \in Places : k # pos /\ Content(j)' = timers[k] /\ (j # pos => k = j /\ k # n)
        BY ZenonT(30), <2>7
      <4>2. j # pos => timers[k].slot # timers[n].slot
        BY SMTT(20), Z3T(20), <1>1, <1>3, <4>1
      <4>3. slots'[timers[k].slot].in_use
            /\ timers[k].id = [gen |-> slots'[timers[k].slot].gen, low |-> timers[k].slot + 1]
        BY Zenon, <1>3, <2>4
      <4>4. j # pos => slots'[timers[k].slot].heap_pos = j
        BY ZenonT(30), <1>3, <2>4, <4>1, <4>2
      <4> QED BY SMTT(20), Z3T(20), <4>1, <4>3, <4>4
    <3>2. ASSUME NEW j \in Places', NEW k \in Places', (Content(j)').slot = (Content(k)').slot
          PROVE  j = k
      <4>1. PICK a \in Places : Content(j)' = timers[a] /\ (j # pos => a = j /\ a # n)
                               /\ (j = pos => a = n)
        BY <2>7
      <4>2. PICK b \in Places : Content(k)' = timers[b] /\ (k # pos => b = k /\ b # n)
                               /\ (k = pos => b = n)
        BY <2>7
      <4>3. a = b
        BY SMTT(20), Z3T(20), <1>3, <3>2, <4>1, <4>2
      <4> QED BY <4>1, <4>2, <4>3
    <3>3. sift'.i \in Places'
      BY SMTT(20), Z3T(20), <1>1, <1>10, <2>2
    <3> QED BY ZenonT(30), <2>3, <3>1, <3>2, <3>3 DEF EntriesAgree
  <2>9. SlotsInUse'
    <3>1. ASSUME NEW t \in Index, slots'[t].in_use, t # s
          PROVE  \E j \in Places' : (Content(j)').slot = t
      <4>1. PICK k \in Places : timers[k].slot = t
        BY SMTT(20), Z3T(20), <1>4, <2>4, <3>1
      <4>2. k # pos
        BY Zenon, <3>1, <4>1
      <4>3. CASE k = n
        BY Zenon, <1>1, <1>10, <4>1, <4>3
      <4>4. CASE k # n
        BY Zenon, <1>1, <4>1, <4>2, <4>4
      <4> QED BY ZenonT(30), <4>3, <4>4
    <3>2. slots'[s].in_use /\ \A j \in Places' : (Content(j)').slot # s
      <4>1. slots'[s].in_use
        BY ZenonT(30), <1>3, <2>4
      <4>2. ASSUME NEW j \in Places' PROVE (Content(j)').slot # s
        <5>1. PICK k \in Places : k # pos /\ Content(j)' = timers[k]
          BY ZenonT(30), <2>7
        <5> QED BY <1>3, <5>1
      <4> QED BY SMTT(20), Z3T(20), <4>1, <4>2
    <3>3. \A t \in Index : t >= slots_count' => ~slots'[t].in_use
      BY <1>2, <2>4 DEF IInv, SlotsInUse
    <3> QED BY Zenon, <2>2, <2>3, <3>1, <3>2, <3>3 DEF SlotsInUse
  <2>10. Ordered'
    <3>1. ASSUME NEW p \in Index, NEW c \in Index, c \in Children(p), c < n, p # pos, c # pos
          PROVE  timers'[p].deadline_ms <= timers'[c].deadline_ms
      <4>1. p # n /\ c # n /\ c < timer_count
        BY SMTT(20), Z3T(20), <1>7, <3>1
      <4> QED BY ZenonT(30), <1>1, <1>6, <3>1, <4>1
    <3>2. ASSUME NEW p \in Index, NEW c \in Index, pos \in Children(p), c \in Children(pos), c < n
          PROVE  timers'[p].deadline_ms <= timers'[c].deadline_ms
      <4>1. pos < c /\ c # n /\ c < timer_count
        BY <1>5, <1>7, <3>2
      <4>2. p < pos /\ p # n /\ pos < timer_count
        BY SMTT(20), Z3T(20), <1>0, <1>5, <3>2, <4>1, ParentFacts
      <4>3. timers[p].deadline_ms <= timers[pos].deadline_ms
            /\ timers[pos].deadline_ms <= timers[c].deadline_ms
        BY SMTT(20), Z3T(20), <1>5, <1>6, <3>2, <4>1, <4>2
      <4>4. timers'[p] = timers[p] /\ timers'[c] = timers[c]
        <5>1. p # pos /\ c # pos
          BY SMTT(20), Z3T(20), <1>5, <4>1, <4>2
        <5> QED BY Zenon, <1>1, <4>1, <4>2, <5>1
      <4> QED BY <1>5, <4>3, <4>4, DeadlineFacts
    <3> QED BY Zenon, <1>1, <2>2, <2>3, <3>1, <3>2 DEF Ordered, Early
  <2>11. TypeOK'
    BY SMTT(20), Z3T(20), <1>1, <1>2, <1>8, <2>1, <2>2, <2>4 DEF IInv, TypeOK, SlotType
  <2> QED BY <2>6, <2>8, <2>9, <2>10, <2>11 DEF IInv, TimerAssumption
<1> QED
  BY SMTT(20), Z3T(20), <1>9, <1>10
-----------------------------------------------------------------------------
(* The other steps, and the promise each keeps. *)

(* cloak_reactor_cancel_timer, whatever the handle. *)
LEMMA CancelKeepsIInv ==
    ASSUME IInv, NEW id \in Handles, CancelTimer(id)
    PROVE  IInv' /\ Promise!Cancel(id)
<1>1. Whole /\ Names(id) /\ RemoveAt(slots[id.low - 1].heap_pos, id.low - 1) /\ pass' = pass
  BY SMTT(20), Z3T(20) DEF CancelTimer
<1>2. id.low \in 0..TIMER_MAX_SLOTS /\ id = [gen |-> id.gen, low |-> id.low]
      /\ TIMER_MAX_SLOTS \in Nat
  BY Zenon, Types DEF Handles
<1>3. PICK s \in Index : s = id.low - 1
  BY SMTT(20), Z3T(20), <1>1, <1>2 DEF Names, Index
<1>4. slots[s].in_use /\ slots[s].gen = id.gen /\ id.low = s + 1
  BY SMTT(20), Z3T(20), <1>1, <1>2, <1>3 DEF Names
<1>5. PICK pos \in Places : Content(pos).slot = s
  BY Zenon, <1>1, <1>4 DEF IInv, SlotsInUse
<1>6. Content(pos) = timers[pos]
  BY Zenon, <1>1 DEF Content
<1>7. /\ timers[pos].id = [gen |-> slots[s].gen, low |-> s + 1]
      /\ slots[s].heap_pos = pos
  BY Zenon, <1>1, <1>5, <1>6 DEF IInv, EntriesAgree, Hole
<1>8. RemoveAt(pos, s) /\ timers[pos].slot = s /\ timers[pos].id = id
  BY SMTT(20), Z3T(20), <1>1, <1>2, <1>3, <1>4, <1>5, <1>6, <1>7
<1>9. IInv'
  BY SMTT(20), Z3T(20), <1>1, <1>8, RemoveAtKeepsIInv
<1>10. Pending' = {t \in Pending : t.id # id}
  BY SMTT(20), Z3T(20), <1>1, <1>8, RemovedPending
<1>11. UNCHANGED <<issued, now, pass>>
  BY Zenon, <1>1 DEF RemoveAt
<1> QED
  BY <1>9, <1>10, <1>11 DEF Promise!Cancel

(* process_expired_timers takes the root. *)
LEMMA FireTopKeepsIInv ==
    ASSUME NumberFacts, IInv, FireTop
    PROVE  IInv' /\ \E t \in Pending : Promise!Fire(t)
<1>1. /\ Whole /\ pass.on /\ timer_count > 0 /\ timers[0].deadline_ms <= pass.now
      /\ RemoveAt(0, timers[0].slot) /\ pass' = pass
  BY ZenonT(30) DEF FireTop
<1>2. 0 \in Places /\ timers[0].slot \in Index
  BY SMTT(20), Z3T(20), <1>1, Types DEF Places
<1>3. IInv'
  BY Zenon, <1>1, <1>2, RemoveAtKeepsIInv
<1> DEFINE t == [id |-> timers[0].id, deadline_ms |-> timers[0].deadline_ms]
<1>4. Pending' = {u \in Pending : u.id # t.id}
  BY SMTT(20), Z3T(20), <1>1, <1>2, RemovedPending
<1>5. \A j \in Places : Content(j) = timers[j]
  BY SMTT(20), Z3T(20), <1>1 DEF Content
<1>6. Pending = {[id |-> timers[j].id, deadline_ms |-> timers[j].deadline_ms] : j \in Places}
  BY SMTT(20), Z3T(20), <1>5 DEF Pending, Places
<1>7. t \in Pending /\ \A u \in Pending : t.deadline_ms <= u.deadline_ms
  BY SMTT(20), Z3T(20), <1>1, <1>2, <1>6, RootIsEarliest
<1>8. UNCHANGED <<issued, now, pass>>
  BY Zenon, <1>1 DEF RemoveAt
<1>9. t.deadline_ms <= pass.now
  BY Zenon, <1>1
<1> HIDE DEF t
<1>10. Promise!Fire(t)
  BY SMTT(20), Z3T(20), <1>1, <1>4, <1>7, <1>8, <1>9 DEF Promise!Fire
<1> QED
  BY <1>3, <1>7, <1>10

(* A step that leaves the heap alone keeps the invariant. *)
LEMMA SameHeap ==
    ASSUME IInv, UNCHANGED <<heap, issued>>, now' \in Nat, pass' \in [on : BOOLEAN, now : Nat]
    PROVE  IInv' /\ Pending' = Pending
<1>1. UNCHANGED <<timers, timer_count, slots, slots_count, free_list, sift, issued>>
  BY SMTT(20), Z3T(20) DEF heap
<1>2. TypeOK'
  BY SMTT(20), Z3T(20), <1>1 DEF IInv, TypeOK
<1>3. Whole' = Whole /\ Places' = Places /\ (\A j : Content(j)' = Content(j))
      /\ \A j : Hole(j)' = Hole(j)
  BY SMTT(20), Z3T(20), <1>1 DEF Whole, Places, Content, Hole
<1>4. EntriesAgree'
  BY ZenonT(30), <1>1, <1>3 DEF IInv, EntriesAgree
<1>5. SlotsInUse'
  BY Zenon, <1>1, <1>3 DEF IInv, SlotsInUse
<1>6. FreeAgrees'
  BY SMTT(20), Z3T(20), <1>1 DEF IInv, FreeAgrees
<1>7. Ordered'
  BY Zenon, <1>1, <1>3 DEF IInv, Ordered, Early
<1> QED
  BY <1>2, <1>3, <1>4, <1>5, <1>6, <1>7, SamePending DEF IInv, TimerAssumption

(* A timer pass begins or ends. *)
LEMMA PassKeepsIInv ==
    ASSUME NumberFacts, IInv, BeginPass \/ EndPass \/ Tick
    PROVE  IInv' /\ (Promise!Begin \/ Promise!End \/ Promise!Tick)
<1>0. now \in Nat /\ pass \in [on : BOOLEAN, now : Nat]
  BY DEF IInv, TypeOK
<1>1. CASE BeginPass
  <2>1. ~pass.on /\ pass' = [on |-> TRUE, now |-> now] /\ UNCHANGED <<heap, now, issued>>
    BY <1>1 DEF BeginPass
  <2>2. IInv' /\ Pending' = Pending
    BY SMTT(20), Z3T(20), <1>0, <2>1, SameHeap
  <2> QED BY SMTT(20), Z3T(20), <2>1, <2>2 DEF Promise!Begin
<1>2. CASE EndPass
  <2>1. /\ Whole /\ pass.on /\ (timer_count > 0 => timers[0].deadline_ms > pass.now)
        /\ pass' = [on |-> FALSE, now |-> 0] /\ UNCHANGED <<heap, now, issued>>
    BY SMTT(20), Z3T(20), <1>2 DEF EndPass
  <2>2. IInv' /\ Pending' = Pending
    BY SMTT(20), Z3T(20), <1>0, <2>1, SameHeap
  <2>3. \A t \in Pending : t.deadline_ms > pass.now
    <3>1. Pending = {[id |-> timers[j].id, deadline_ms |-> timers[j].deadline_ms] : j \in Places}
      BY SMTT(20), Z3T(20), <2>1 DEF Pending, Places, Content
    <3>2. ASSUME NEW j \in Places PROVE timers[j].deadline_ms > pass.now
      <4>1. 0 \in Places /\ timers[0].deadline_ms <= timers[j].deadline_ms
        BY SMTT(20), Z3T(20), <2>1, RootIsEarliest
      <4>2. timer_count > 0 /\ 0 \in Index /\ j \in Index
        BY SMTT(20), Z3T(20), <4>1, Types DEF Places
      <4>3. timers[0].deadline_ms \in Nat /\ timers[j].deadline_ms \in Nat /\ pass.now \in Nat
        BY <1>0, <4>2, DeadlineFacts
      <4> QED BY SMTT(20), Z3T(20), <2>1, <4>1, <4>2, <4>3
    <3> QED BY SMTT(20), Z3T(20), <3>1, <3>2
  <2> QED BY SMTT(20), Z3T(20), <2>1, <2>2, <2>3 DEF Promise!End, Promise!Idle
<1>3. CASE Tick
  <2>1. now' = now + 1 /\ UNCHANGED <<heap, pass, issued>>
    BY <1>3 DEF Tick
  <2>2. IInv' /\ Pending' = Pending
    BY SMTT(20), Z3T(20), <1>0, <2>1, SameHeap
  <2> QED BY <1>0, <2>1, <2>2 DEF Promise!Tick
<1> QED
  BY <1>1, <1>2, <1>3

(* A new reactor has no timer. *)
LEMMA InitIInv ==
    ASSUME TimerAssumption, Init
    PROVE  IInv /\ Promise!Init
<1>1. /\ timers = [i \in Index |-> NoEntry] /\ timer_count = 0
      /\ slots = [s \in Index |-> [heap_pos |-> 0, gen |-> 0, in_use |-> FALSE]]
      /\ slots_count = 0 /\ free_list = <<>> /\ sift = NoSift
      /\ now = 0 /\ pass = [on |-> FALSE, now |-> 0] /\ issued = {}
  BY SMTT(20), Z3T(20) DEF Init
<1>2. Whole /\ Places = {} /\ NoEntry \in Entries
      /\ sift \in [dir : {"none", "up", "down"}, i : Index, e : Entries,
                   moved : BOOLEAN, then : Index \cup {NoSlot}]
  BY <1>1, NoSiftType DEF Whole, Places
<1>3. 0 \in Index /\ 0 \in 0..TIMER_GEN_MAX /\ 0 \in 0..TIMER_MAX_SLOTS
      /\ TIMER_MAX_SLOTS \in Nat
  BY SMTT(20), Z3T(20) DEF TimerAssumption, Index
<1>4. slots \in [Index -> SlotType] /\ \A s \in Index : ~slots[s].in_use
  BY SMTT(20), Z3T(20), <1>1, <1>3 DEF SlotType
<1>5. timers \in [Index -> Entries]
  BY SMTT(20), Z3T(20), <1>1, <1>2
<1>6. free_list \in Seq(Index) /\ 1..Len(free_list) = {}
  BY SMTT(20), Z3T(20), <1>1
<1>7. TypeOK
  BY SMTT(20), Z3T(20), <1>1, <1>2, <1>3, <1>4, <1>5, <1>6 DEF TypeOK, SlotType
<1>8. EntriesAgree /\ SlotsInUse
  BY Zenon, <1>2, <1>4 DEF EntriesAgree, SlotsInUse
<1>9. FreeAgrees
  BY ZenonT(30), <1>1, <1>6 DEF FreeAgrees
<1>10. Ordered
  <2>1. \A c \in Index : ~(c < timer_count)
    BY SMTT(20), Z3T(20), <1>1 DEF Index
  <2> QED BY SMTT(20), Z3T(20), <1>2, <2>1 DEF Ordered, Whole
<1>11. Pending = {}
  BY <1>2 DEF Pending, Places
<1> QED
  BY SMTT(20), Z3T(20), <1>1, <1>7, <1>8, <1>9, <1>10, <1>11 DEF IInv, Promise!Init, Promise!Idle

(* Every step keeps the inductive invariant and maps to the set of timers. *)
LEMMA NextKeepsIInv ==
    ASSUME NumberFacts, IInv, [Next]_vars
    PROVE  IInv' /\ [Promise!Next]_(Promise!vars)
<1>1. CASE \E d \in Delays : AddRecycled(d) \/ AddNew(d)
  BY <1>1, AddRecycledKeepsIInv, AddNewKeepsIInv DEF Promise!Next
<1>2. CASE \E id \in Handles : CancelTimer(id)
  BY <1>2, CancelKeepsIInv DEF Promise!Next
<1>3. CASE Sifts
  <2>1. IInv' /\ Pending' = Pending /\ UNCHANGED <<now, pass, issued>>
    BY <1>3, SiftUpKeepsIInv, SiftUpDoneKeepsIInv, SiftDownKeepsIInv, SiftDownDoneKeepsIInv
       DEF Sifts
  <2> QED BY <2>1 DEF Promise!vars
<1>4. CASE FireTop
  BY <1>4, FireTopKeepsIInv DEF Promise!Next
<1>5. CASE BeginPass \/ EndPass \/ Tick
  BY <1>5, PassKeepsIInv DEF Promise!Next
<1>6. CASE UNCHANGED vars
  <2>1. UNCHANGED <<heap, now, pass, issued>>
    BY <1>6 DEF vars, heap
  <2>2. now' \in Nat /\ pass' \in [on : BOOLEAN, now : Nat]
    BY <2>1 DEF IInv, TypeOK
  <2>3. IInv' /\ Pending' = Pending
    BY <2>1, <2>2, SameHeap
  <2> QED BY <2>1, <2>3 DEF Promise!vars
<1> QED
  BY SMTT(20), Z3T(20), <1>1, <1>2, <1>3, <1>4, <1>5, <1>6 DEF Next

(* The inductive invariant implies what the run checks. *)
LEMMA IInvIsEnough ==
    ASSUME IInv
    PROVE  HeapOrder /\ SlotsAgree
<1>1. HeapOrder
  BY ZenonT(30) DEF IInv, Ordered, Early, Hole, HeapOrder
<1>2. ASSUME Whole
      PROVE  /\ \A i \in 0..timer_count - 1 :
                  /\ slots[timers[i].slot].in_use
                  /\ slots[timers[i].slot].heap_pos = i
                  /\ timers[i].id = [gen |-> slots[timers[i].slot].gen,
                                     low |-> timers[i].slot + 1]
             /\ \A s \in Index : slots[s].in_use =>
                  /\ slots[s].heap_pos < timer_count
                  /\ timers[slots[s].heap_pos].slot = s
  <2>1. \A j \in Places : Content(j) = timers[j] /\ ~Hole(j)
    BY ZenonT(30), <1>2 DEF Content, Hole
  <2>2. \A i \in Places :
                  /\ slots[timers[i].slot].in_use
                  /\ slots[timers[i].slot].heap_pos = i
                  /\ timers[i].id = [gen |-> slots[timers[i].slot].gen,
                                     low |-> timers[i].slot + 1]
    BY SMTT(20), Z3T(20), <2>1 DEF IInv, EntriesAgree
  <2>3. ASSUME NEW s \in Index, slots[s].in_use
        PROVE  slots[s].heap_pos < timer_count /\ timers[slots[s].heap_pos].slot = s
    <3>1. PICK j \in Places : timers[j].slot = s
      BY SMTT(20), Z3T(20), <1>2, <2>1, <2>3 DEF IInv, SlotsInUse
    <3>2. j < timer_count
      BY SMTT(20), Z3T(20), Types DEF Places
    <3> QED BY ZenonT(30), <2>2, <3>1, <3>2
  <2> QED BY <2>2, <2>3 DEF Places
<1>3. SlotsAgree
  BY <1>2 DEF SlotsAgree
<1> QED
  BY <1>1, <1>3

-----------------------------------------------------------------------------
(* The facts about numbers, from the library's theorems on finite sets and *)
(* well-founded relations.  They come in here and not with EXTENDS, where  *)
(* they would weigh on every step above.                                   *)
LOCAL INSTANCE FiniteSetTheorems
LOCAL INSTANCE WellFoundedInduction

(* A nonempty set of numbers has a least one. *)
LEMMA LessIsWellFounded ==
    \E R : IsWellFoundedOn(R, Nat) /\ \A x, y \in Nat : <<y, x>> \in R <=> y < x
<1> DEFINE R == {ss \in Nat \X Nat : ss[1] < ss[2]}
<1>1. IsWellFoundedOn(R, Nat)
  BY NatLessThanWellFounded DEF OpToRel
<1>2. \A x, y \in Nat : <<y, x>> \in R <=> y < x
  OBVIOUS
<1> HIDE DEF R
<1> QED
  BY SMTT(20), Z3T(20), <1>1, <1>2

(* A nonempty set of naturals has a least member. *)
LEMMA LeastNumber ==
    ASSUME NEW T, T \subseteq Nat, T # {}
    PROVE  \E x \in T : \A y \in T : x <= y
<1>1. PICK R : IsWellFoundedOn(R, Nat) /\ \A x, y \in Nat : <<y, x>> \in R <=> y < x
  BY LessIsWellFounded
<1>2. PICK x \in T : \A y \in T : ~(<<y, x>> \in R)
  BY ZenonT(30), <1>1, WFMin
<1>3. \A y \in T : ~(y < x)
  BY ZenonT(30), <1>1, <1>2
<1> QED
  BY <1>3

(* As many entries as slots leave no slot over. *)
LEMMA Pigeonhole ==
    ASSUME TimerAssumption, NEW s \in Index, NEW f \in [Index -> Index \ {s}],
           \A j, k \in Index : f[j] = f[k] => j = k
    PROVE  FALSE
<1>1. TIMER_MAX_SLOTS \in Nat \ {0}
  BY DEF TimerAssumption
<1>2. f \in Injection(Index, Index \ {s})
  BY DEF Injection, IsInjective
<1>3. IsFiniteSet(Index) /\ Cardinality(Index) = TIMER_MAX_SLOTS
  <2>1. 0 \in Int /\ TIMER_MAX_SLOTS - 1 \in Int
    BY <1>1
  <2>2. IsFiniteSet(0..TIMER_MAX_SLOTS - 1)
        /\ Cardinality(0..TIMER_MAX_SLOTS - 1) =
             IF 0 > TIMER_MAX_SLOTS - 1 THEN 0 ELSE (TIMER_MAX_SLOTS - 1) - 0 + 1
    BY ZenonT(30), <2>1, FS_Interval
  <2> QED BY SMTT(20), Z3T(20), <1>1, <2>2 DEF Index
<1>4. IsFiniteSet(Index \ {s}) /\ Cardinality(Index \ {s}) = TIMER_MAX_SLOTS - 1
  BY ZenonT(30), <1>3, FS_RemoveElement
<1>5. Cardinality(Index) <= Cardinality(Index \ {s})
  BY SMTT(20), Z3T(20), <1>2, <1>4, FS_Injection
<1> QED
  BY SMTT(20), Z3T(20), <1>1, <1>3, <1>4, <1>5

(* The facts about numbers that the lemmas above assume. *)
LEMMA NumberFactsHold == ASSUME TimerAssumption PROVE NumberFacts
<1>1. ASSUME NEW T \in SUBSET Nat, T # {} PROVE \E x \in T : \A y \in T : x <= y
  BY ZenonT(30), <1>1, LeastNumber
<1> QED
  BY ZenonT(30), <1>1, Pigeonhole DEF NumberFacts

(* Between operations the heap is ordered and its slots agree with it, and *)
(* the heap implements the set of timers cloak/reactor.h promises: a       *)
(* handle is never issued twice, cancel_timer removes exactly the timer    *)
(* its handle names, and process_expired_timers fires the earliest timer,  *)
(* and only when it is due, until none is.                                 *)
THEOREM TimersAreASet == TimerAssumption /\ Spec => HeapIsSet
<1>1. TimerAssumption /\ Init => IInv /\ Promise!Init
  BY SMTT(20), Z3T(20), InitIInv
<1>2. IInv /\ [Next]_vars => IInv' /\ [Promise!Next]_(Promise!vars)
  BY SMTT(20), Z3T(20), NextKeepsIInv, NumberFactsHold DEF IInv
<1>3. IInv => HeapOrder /\ SlotsAgree
  BY IInvIsEnough
<1>4. IInv => [\A id \in issued : CancelTimer(id) => Promise!Cancel(id)]_vars
  BY CancelKeepsIInv DEF IInv, TypeOK
<1> QED
  BY <1>1, <1>2, <1>3, <1>4, PTL
     DEF Spec, HeapIsSet, Implements, Promise!Spec, CancelsOwn
=============================================================================
