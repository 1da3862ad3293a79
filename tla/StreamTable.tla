----------------------------- MODULE StreamTable -----------------------------
(***************************************************************************)
(* cloak_strmtab_t (libcloak-mux/src/strmtab.c): the open-addressed table  *)
(* in which a session remembers its streams, the closed ones included.     *)
(* No slot is ever emptied: a stream that closes leaves a tombstone, which *)
(* stays through every growth so that a late frame of it is recognised.    *)
(*                                                                         *)
(* A key's hash is fixed for a behaviour and taken from Hashes; the table  *)
(* uses its low bits.  A value is left out, a slot is [key, state].        *)
(***************************************************************************)
EXTENDS Integers, FiniteSets, SequencesExt

CONSTANTS Keys,        \* stream ids
          MinCap,      \* next_pow2's least capacity, a power of two
          MaxCap,      \* growth beyond it fails: calloc's bound here
          Hashes       \* functions from Keys to Nat, candidates for hash_u32

VARIABLES tab,      \* the table: [cap, slots, count]
          hash,     \* hash_u32 on Keys, never changes
          map,      \* what the calls so far should have left: key -> state
          res,      \* what the last call returned, 0 or -1
          want      \* what it should have returned

tvars == <<tab, hash, map, res, want>>

Absent == [key |-> 0, state |-> "absent"]

(* cloak_strmtab_init: calloc leaves every slot absent. *)
NewTable(cap) == [cap |-> cap, slots |-> [i \in 0 .. cap - 1 |-> Absent], count |-> 0]

(* The i-th slot of k's probe sequence: i = (i + 1) & mask from its hash. *)
Probe(t, k, i) == (hash[k] + i) % t.cap

(* The first slot of k's probe sequence that satisfies Stop, -1 if none of *)
(* the cap probes does.                                                    *)
FirstProbe(t, k, Stop(_)) ==
    LET hits == {i \in 0 .. t.cap - 1 : Stop(t.slots[Probe(t, k, i)])}
    IN IF hits = {} THEN -1 ELSE Probe(t, k, Min(hits))

(* cloak_strmtab_lookup: an absent slot ends the search. *)
Lookup(t, k) ==
    LET i == FirstProbe(t, k, LAMBDA s : s.state = "absent" \/ s.key = k)
    IN IF i = -1 THEN "absent" ELSE t.slots[i].state

(* A growth that drops what is closed, the way most tables would.          *)
RehashLive(t, s) ==
    IF s.state # "active" THEN t
    ELSE LET j == FirstProbe(t, s.key, LAMBDA n : n.state = "absent")
         IN [t EXCEPT !.slots[j] = s, !.count = @ + 1]

(* strmtab_grow for one old slot: copied, tombstone or not, to the first   *)
(* absent slot of its probe sequence.                                      *)
Rehash(t, s) ==
    IF s.state = "absent" THEN t
    ELSE LET j == FirstProbe(t, s.key, LAMBDA n : n.state = "absent")
         IN [t EXCEPT !.slots[j] = s, !.count = @ + 1]

(* strmtab_grow: twice the capacity, every slot of the old table in order. *)
Grow(t) ==
    FoldLeft(Rehash, NewTable(2 * t.cap), [i \in 1 .. t.cap |-> t.slots[i - 1]])

(* The slots that hold something are 7/10 of the table or more. *)
NeedsGrowth(t) == t.count * 10 >= t.cap * 7

(* The probing half of cloak_strmtab_insert_active: the key's own slot is  *)
(* taken again if it is a tombstone; no other tombstone ever is.           *)
Place(t, k) ==
    LET i == FirstProbe(t, k, LAMBDA s : s.state = "absent" \/ s.key = k)
        taken == [t EXCEPT !.slots[i] = [key |-> k, state |-> "active"]]
    IN IF i = -1 THEN [tab |-> t, res |-> -1]
       ELSE IF t.slots[i].state = "absent"
       THEN [tab |-> [taken EXCEPT !.count = @ + 1], res |-> 0]
       ELSE IF t.slots[i].state = "active" THEN [tab |-> t, res |-> -1]
       ELSE [tab |-> taken, res |-> 0]

TInit ==
    /\ tab = NewTable(MinCap)
    /\ hash \in Hashes
    /\ map = [k \in Keys |-> "absent"]
    /\ res = 0 /\ want = 0

(* cloak_strmtab_insert_active; room says whether calloc had memory for a  *)
(* larger table, if one is needed.                                         *)
InsertActive(k, room) ==
    LET refused == NeedsGrowth(tab) /\ ~room
    IN /\ room => (NeedsGrowth(tab) => tab.cap < MaxCap)
       /\ \E p \in {IF refused THEN [tab |-> tab, res |-> -1]
                    ELSE Place(IF NeedsGrowth(tab) THEN Grow(tab) ELSE tab, k)} :
            /\ tab' = p.tab
            /\ res' = p.res
       /\ IF refused \/ map[k] = "active"
          THEN want' = -1 /\ map' = map
          ELSE want' = 0 /\ map' = [map EXCEPT ![k] = "active"]
       /\ UNCHANGED hash

(* cloak_strmtab_tombstone: only an active slot of the key stops it with   *)
(* success.                                                                *)
Tombstone(k) ==
    LET i == FirstProbe(tab, k, LAMBDA s : \/ s.state = "absent"
                                           \/ s.state = "active" /\ s.key = k)
    IN /\ IF i = -1 \/ tab.slots[i].state = "absent"
          THEN res' = -1 /\ tab' = tab
          ELSE res' = 0 /\ tab' = [tab EXCEPT !.slots[i].state = "tombstone"]
       /\ IF map[k] = "active"
          THEN want' = 0 /\ map' = [map EXCEPT ![k] = "tombstone"]
          ELSE want' = -1 /\ map' = map
       /\ UNCHANGED hash

TNext == \E k \in Keys : (\E room \in BOOLEAN : InsertActive(k, room)) \/ Tombstone(k)

(* cloak_strmtab_for_each_active calls back with these keys, once each. *)
ForEachActive(t) ==
    SelectSeq([i \in 1 .. t.cap |-> t.slots[i - 1]], LAMBDA s : s.state = "active")

(***************************************************************************)
(* The table is a map from stream ids to absent, active or closed: every   *)
(* lookup finds what the calls left behind (a stream closed before any     *)
(* number of growths included), every call returned what a map would have, *)
(* no key is held twice, and an absent slot always remains for a probe to  *)
(* stop at.                                                                *)
(***************************************************************************)
TableIsMap ==
    /\ res = want
    /\ \A k \in Keys : Lookup(tab, k) = map[k]
    /\ \A k \in Keys : Len(SelectSeq(ForEachActive(tab), LAMBDA s : s.key = k))
                       = IF map[k] = "active" THEN 1 ELSE 0
    /\ tab.count = Cardinality({k \in Keys : map[k] # "absent"})
    /\ \E i \in DOMAIN tab.slots : tab.slots[i].state = "absent"
=============================================================================
