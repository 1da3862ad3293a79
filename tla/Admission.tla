------------------------------ MODULE Admission ------------------------------
(***************************************************************************)
(* Who may come in: the replay cache (libcloak-server/src/replay_cache.c), *)
(* the window a hello's timestamp must lie in (server_auth.c), and the     *)
(* order in which the dispatcher asks them.                                *)
(*                                                                         *)
(* The cache is direct-mapped: one slot per hash value, always overwritten *)
(* by the next comer.  It forgets, therefore, and what it forgets must not *)
(* matter: a hello older than the cache's age limit is refused for its     *)
(* timestamp.  The clock is the server's and does not step back here.      *)
(***************************************************************************)
EXTENDS Integers, TLAPS

CONSTANTS Randoms,       \* the hellos' random fields, what the cache is keyed by
          Capacity,      \* slots of the cache
          TOLERANCE,     \* CLOAK_SERVER_AUTH_TIMESTAMP_TOLERANCE_SECONDS
          AGE_LIMIT,     \* the age limit server.c passes to the cache
          Stamps,        \* timestamps a client may have written
          MaxNow         \* the clock's last second here

AdmissionAssumption ==
    /\ Capacity \in Nat \ {0} /\ TOLERANCE \in Nat \ {0}
    /\ AGE_LIMIT \in Nat /\ AGE_LIMIT >= 2 * TOLERANCE
    /\ Stamps \subseteq Int /\ MaxNow \in Int

VARIABLES now,       \* the server's clock, in seconds
          slot,      \* slot -> [key, inserted_at], inserted_at = 0 is empty
          siphash,   \* the slot of each random under this server's hash key
          stamp,     \* the timestamp sealed inside each random's hello
          admitted,  \* random -> how often it was let in since another took its slot
          shown,     \* random -> when it was last shown and not found, 0 if evicted since
          refused    \* the last hello was refused as a replay, and was none

avars == <<now, slot, siphash, stamp, admitted, shown, refused>>

(* cloak_replay_cache_init; the hash key is drawn at random. *)
AInit ==
    /\ now = 1
    /\ slot = [i \in 0 .. Capacity - 1 |-> [key |-> 0, inserted_at |-> 0]]
    /\ siphash \in [Randoms -> 0 .. Capacity - 1]
    /\ stamp \in [Randoms -> Stamps]
    /\ admitted = [r \in Randoms |-> 0]
    /\ shown = [r \in Randoms |-> 0]
    /\ refused = FALSE

(* A check that takes an entry of this very second for an empty one. *)
IsReplayLater(s, r) ==
    LET age == now - s.inserted_at
    IN s.inserted_at # 0 /\ s.key = r /\ age > 0 /\ age < AGE_LIMIT

(* cloak_replay_cache_check_and_insert says replay: the slot holds this    *)
(* key and is younger than the limit.                                      *)
IsReplay(s, r) ==
    LET age == now - s.inserted_at
    IN s.inserted_at # 0 /\ s.key = r /\ age >= 0 /\ age < AGE_LIMIT

(* cloak_server_auth_decrypt on a hello that decrypts: its timestamp lies  *)
(* strictly within the tolerance of the clock, either way.                 *)
InWindow(ts) == ts > now - TOLERANCE /\ ts < now + TOLERANCE

(* dispatcher_authenticate: the cache first (a random is remembered what-  *)
(* ever becomes of its hello), then the hello itself; sealed says whether  *)
(* the server's key opens it.  A replay does not refresh its entry.        *)
Hello(r, sealed) ==
    LET i == siphash[r]
        replay == IsReplay(slot[i], r)
        evicted == {o \in Randoms \ {r} : siphash[o] = i}
    IN /\ slot' = IF replay THEN slot
                  ELSE [slot EXCEPT ![i] = [key |-> r, inserted_at |-> now]]
       /\ admitted' = IF replay THEN admitted
                      ELSE [o \in Randoms |->
                              IF o \in evicted THEN 0
                              ELSE IF o = r /\ sealed /\ InWindow(stamp[r])
                              THEN admitted[r] + 1 ELSE admitted[o]]
       /\ refused' = (replay /\ (shown[r] = 0 \/ now - shown[r] >= AGE_LIMIT))
       /\ shown' = [o \in Randoms |->
                      IF o = r THEN IF replay THEN shown[r] ELSE now
                      ELSE IF ~replay /\ o \in evicted THEN 0 ELSE shown[o]]
       /\ UNCHANGED <<now, siphash, stamp>>

(* The clock advances. *)
Tick ==
    /\ now < MaxNow
    /\ now' = now + 1
    /\ refused' = FALSE
    /\ UNCHANGED <<slot, siphash, stamp, admitted, shown>>

ANext == (\E r \in Randoms, sealed \in BOOLEAN : Hello(r, sealed)) \/ Tick

ASpec == AInit /\ [][ANext]_avars

(***************************************************************************)
(* A hello that was let in is not let in again unless another one took its *)
(* slot in between: while it is in the cache the cache refuses it, and by  *)
(* the time the cache lets go of it its timestamp is too old.  And nothing *)
(* is refused as a replay that was not shown within the age limit.         *)
(***************************************************************************)
AdmittedOnce ==
    /\ ~refused
    /\ \A r \in Randoms : admitted[r] <= 1

-----------------------------------------------------------------------------
(***************************************************************************)
(* For every number of slots, every hash, every set of randoms and every   *)
(* run of the clock: a hello is let in at most once between two evictions, *)
(* and none is refused as a replay that is none.                           *)
(*                                                                         *)
(* AdmittedOnce is not inductive.  What makes it so is that the history    *)
(* and the cache tell the same story (Remembered), and that a hello which  *)
(* was let in becomes stale no later than TOLERANCE after it was last      *)
(* remembered (GoesStale), which is why an age limit of twice that is      *)
(* enough.                                                                 *)
(***************************************************************************)
ATypeOK ==
    /\ now \in Nat \ {0}
    /\ slot \in [0 .. Capacity - 1 ->
                    [key : Randoms \cup {0}, inserted_at : Nat]]
    /\ siphash \in [Randoms -> 0 .. Capacity - 1]
    /\ stamp \in [Randoms -> Int]
    /\ admitted \in [Randoms -> Nat] /\ shown \in [Randoms -> Nat]

(* A random was shown, and not evicted since, exactly if its slot has it. *)
Remembered ==
    \A r \in Randoms :
        LET s == slot[siphash[r]]
        IN /\ shown[r] <= now
           /\ shown[r] # 0 => s.key = r /\ s.inserted_at = shown[r]
           /\ s.inserted_at # 0 /\ s.key = r => shown[r] = s.inserted_at

(* One that was let in is remembered, and was fresh when first seen. *)
GoesStale ==
    \A r \in Randoms : admitted[r] # 0 =>
        shown[r] # 0 /\ stamp[r] < shown[r] + TOLERANCE

IInv == AdmissionAssumption /\ ATypeOK /\ Remembered /\ GoesStale /\ AdmittedOnce

-----------------------------------------------------------------------------
(* The cache is empty and nothing was shown to it (cloak_replay_cache_init). *)
LEMMA InitIInv == AdmissionAssumption /\ AInit => IInv
<1> SUFFICES ASSUME AdmissionAssumption, AInit PROVE IInv
  OBVIOUS
<1> USE DEF AInit, AdmissionAssumption
<1>1. ATypeOK
  <2>1. slot \in [0 .. Capacity - 1 -> [key : Randoms \cup {0}, inserted_at : Nat]]
    OBVIOUS
  <2>2. stamp \in [Randoms -> Int]
    BY Zenon
  <2> QED
    BY <2>1, <2>2 DEF ATypeOK
<1>2. Remembered /\ GoesStale /\ AdmittedOnce
  BY <1>1 DEF ATypeOK, Remembered, GoesStale, AdmittedOnce
<1> QED
  BY <1>1, <1>2 DEF IInv

(* A hello whose random the cache still has: nothing changes, and the      *)
(* cache is right that it saw it within the age limit.                     *)
LEMMA ReplayKeepsIInv ==
    ASSUME IInv, NEW r \in Randoms, NEW sealed \in BOOLEAN, Hello(r, sealed),
           IsReplay(slot[siphash[r]], r)
    PROVE  IInv'
<1> USE DEF IInv
<1>1. UNCHANGED <<slot, admitted, now, siphash, stamp>>
  BY DEF Hello
<1>2. shown' = shown
  BY DEF Hello, ATypeOK
<1>3. shown[r] # 0 /\ now - shown[r] < AGE_LIMIT
  BY DEF IsReplay, Remembered, ATypeOK
<1>4. ~(shown[r] = 0 \/ now - shown[r] >= AGE_LIMIT)
  BY <1>3 DEF ATypeOK, AdmissionAssumption
<1>5. ~refused'
  BY Zenon, <1>4 DEF Hello
<1> QED
  BY Zenon, <1>1, <1>2, <1>5 DEF ATypeOK, Remembered, GoesStale, AdmittedOnce,
                          AdmissionAssumption

(* A hello that the cache lets pass takes its slot; if it was let in       *)
(* before, its timestamp is out of the window by now.                      *)
LEMMA PassingKeepsIInv ==
    ASSUME IInv, NEW r \in Randoms, NEW sealed \in BOOLEAN, Hello(r, sealed),
           ~IsReplay(slot[siphash[r]], r)
    PROVE  IInv'
<1> DEFINE i == siphash[r]
<1> USE DEF IInv
<1>1. /\ slot' = [slot EXCEPT ![i] = [key |-> r, inserted_at |-> now]]
      /\ UNCHANGED <<now, siphash, stamp>> /\ ~refused'
  BY Zenon DEF Hello
<1>2. \A o \in Randoms :
        /\ shown'[o] = IF o = r THEN now
                       ELSE IF siphash[o] = i THEN 0 ELSE shown[o]
        /\ admitted'[o] =
             IF o # r /\ siphash[o] = i THEN 0
             ELSE IF o = r /\ sealed /\ InWindow(stamp[r])
             THEN admitted[r] + 1 ELSE admitted[o]
  BY DEF Hello
<1>3. admitted[r] # 0 => ~InWindow(stamp[r])
  <2> SUFFICES ASSUME admitted[r] # 0 PROVE stamp[r] <= now - TOLERANCE
    BY DEF InWindow, ATypeOK, AdmissionAssumption
  <2>1. /\ stamp[r] < shown[r] + TOLERANCE
        /\ shown[r] # 0 /\ shown[r] \in Nat /\ shown[r] <= now
        /\ slot[i].key = r /\ slot[i].inserted_at = shown[r]
    BY DEF GoesStale, Remembered, ATypeOK
  <2>2. now - shown[r] >= AGE_LIMIT
    BY <2>1 DEF IsReplay, ATypeOK, AdmissionAssumption
  <2> QED
    BY <2>1, <2>2 DEF ATypeOK, AdmissionAssumption
<1>4. ATypeOK'
  <2>1. slot' \in [0 .. Capacity - 1 -> [key : Randoms \cup {0}, inserted_at : Nat]]
    BY <1>1 DEF ATypeOK
  <2>2. shown' \in [Randoms -> Nat] /\ admitted' \in [Randoms -> Nat]
    BY DEF Hello, ATypeOK
  <2> QED
    BY <1>1, <2>1, <2>2 DEF ATypeOK
<1>5. Remembered'
  BY <1>1, <1>2 DEF Remembered, ATypeOK
<1>6. GoesStale'
  <2> SUFFICES ASSUME NEW o \in Randoms, admitted'[o] # 0
               PROVE  shown'[o] # 0 /\ stamp'[o] < shown'[o] + TOLERANCE
    BY DEF GoesStale
  <2>1. CASE o # r
    BY <1>1, <1>2, <2>1 DEF GoesStale
  <2>2. CASE o = r /\ admitted[r] = 0
    BY <1>1, <1>2, <2>2 DEF ATypeOK, InWindow, AdmissionAssumption
  <2>3. CASE o = r /\ admitted[r] # 0
    BY <1>1, <1>2, <2>3 DEF GoesStale, Remembered, ATypeOK, AdmissionAssumption
  <2> QED
    BY <2>1, <2>2, <2>3
<1>7. AdmittedOnce'
  BY <1>1, <1>2, <1>3 DEF AdmittedOnce, ATypeOK
<1> QED
  BY <1>4, <1>5, <1>6, <1>7 DEF AdmissionAssumption

(* Every step of the replay cache keeps the inductive invariant. *)
LEMMA NextKeepsIInv == IInv /\ [ANext]_avars => IInv'
<1> SUFFICES ASSUME IInv, [ANext]_avars PROVE IInv'
  OBVIOUS
<1>1. ASSUME NEW r \in Randoms, NEW sealed \in BOOLEAN, Hello(r, sealed)
      PROVE  IInv'
  BY <1>1, ReplayKeepsIInv, PassingKeepsIInv
<1>2. CASE Tick
  BY <1>2 DEF Tick, IInv, ATypeOK, Remembered, GoesStale, AdmittedOnce,
              AdmissionAssumption
<1>3. CASE UNCHANGED avars
  BY <1>3 DEF avars, IInv, ATypeOK, Remembered, GoesStale, AdmittedOnce,
              AdmissionAssumption
<1> QED
  BY <1>1, <1>2, <1>3 DEF ANext

(* A hello that was let in is not let in again while its slot is its own,  *)
(* and no hello is taken for a replay that is none, however many randoms   *)
(* share a slot and however long the server runs: the window of            *)
(* cloak_server_auth_decrypt and the age limit of the replay cache fit.    *)
THEOREM AtMostOnce == AdmissionAssumption /\ ASpec => []AdmittedOnce
<1>1. IInv => AdmittedOnce
  BY DEF IInv
<1> QED
  BY InitIInv, NextKeepsIInv, <1>1, PTL DEF ASpec
=============================================================================
