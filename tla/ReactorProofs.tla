--------------------------- MODULE ReactorProofs ----------------------------
(***************************************************************************)
(* For every set of descriptors, every number of watchers and every size   *)
(* of the event array: the loop touches no freed watcher, owns each one    *)
(* once, and calls back only watchers that are registered.                 *)
(*                                                                         *)
(* A batch may hold events of watchers that were removed since it was      *)
(* taken.  The inductive invariant says who they are: live memory is in    *)
(* the table under its own descriptor and not marked, or on the dead list  *)
(* and marked (Placed), and the kernel reports only what is in the table   *)
(* (ReadyIsRegistered).                                                    *)
(***************************************************************************)
EXTENDS Reactor, TLAPS

(* Two sequences, one after the other. *)
LEMMA SeqConcat ==
    ASSUME NEW S, NEW a \in Seq(S), NEW b \in Seq(S)
    PROVE  /\ a \o b \in Seq(S) /\ Len(a \o b) = Len(a) + Len(b)
           /\ \A i \in 1..Len(a) + Len(b) :
                (a \o b)[i] = IF i <= Len(a) THEN a[i] ELSE b[i - Len(a)]
  OBVIOUS

(* The first element, and the others. *)
LEMMA SeqTail ==
    ASSUME NEW S, NEW a \in Seq(S), a # << >>
    PROVE  /\ Head(a) \in S /\ Tail(a) \in Seq(S) /\ Len(Tail(a)) = Len(a) - 1
           /\ \A i \in 1..Len(Tail(a)) : Tail(a)[i] = a[i + 1]
  OBVIOUS

(* A stretch of a sequence. *)
LEMMA SeqSub ==
    ASSUME NEW S, NEW a, NEW m \in Int, NEW n \in Int, \A i \in m..n : a[i] \in S
    PROVE  /\ SubSeq(a, m, n) \in Seq(S)
           /\ Len(SubSeq(a, m, n)) = IF m <= n THEN n - m + 1 ELSE 0
           /\ \A i \in 1..n - m + 1 : SubSeq(a, m, n)[i] = a[m + i - 1]
  OBVIOUS

(* Where the memory of a watcher is accounted for. *)
Placed ==
    /\ \A w \in dead_list : watcher[w].mem = "live" /\ watcher[w].dead
    /\ \A f \in Fds : watchers[f] # None =>
         LET v == watcher[watchers[f]]
         IN v.mem = "live" /\ ~v.dead /\ v.fd = f
    /\ \A w \in W : watcher[w].mem = "live" =>
         w \in dead_list \/ \E f \in Fds : watchers[f] = w

Registered(w) == \E f \in Fds : watchers[f] = w

ReadyIsRegistered ==
    /\ \A i \in 1..Len(ready) : Registered(ready[i])
    /\ \A i, j \in 1..Len(ready) : ready[i] = ready[j] => i = j

BatchIsLive == \A i \in 1..Len(batch) : watcher[batch[i]].mem = "live"

IInv == ReactorAssumption /\ TypeOK /\ Placed /\ ReadyIsRegistered /\ BatchIsLive

-----------------------------------------------------------------------------
(* RemoveAt of SequencesExt takes the one element out and keeps the rest. *)
LEMMA RemoveAtFacts ==
    ASSUME NEW S, NEW s \in Seq(S), NEW k \in 1..Len(s)
    PROVE  /\ RemoveAt(s, k) \in Seq(S)
           /\ Len(RemoveAt(s, k)) = Len(s) - 1
           /\ \A i \in 1..Len(s) - 1 :
                RemoveAt(s, k)[i] = IF i < k THEN s[i] ELSE s[i + 1]
<1> DEFINE a == SubSeq(s, 1, k - 1)
           b == SubSeq(s, k + 1, Len(s))
<1>1. Len(s) \in Nat /\ k \in Nat /\ k >= 1 /\ k <= Len(s)
      /\ \A i \in 1..Len(s) : s[i] \in S
  OBVIOUS
<1>2. /\ a \in Seq(S) /\ Len(a) = k - 1
      /\ \A i \in 1..k - 1 : a[i] = s[i]
  <2>1. \A i \in 1..k - 1 : s[i] \in S
    BY <1>1
  <2>2. /\ a \in Seq(S) /\ Len(a) = IF 1 <= k - 1 THEN (k - 1) - 1 + 1 ELSE 0
        /\ \A i \in 1..(k - 1) - 1 + 1 : a[i] = s[1 + i - 1]
    BY <1>1, <2>1, 1 \in Int, k - 1 \in Int, SeqSub
  <2> HIDE DEF a
  <2> QED
    BY <1>1, <2>2
<1>3. /\ b \in Seq(S) /\ Len(b) = Len(s) - k
      /\ \A i \in 1..Len(s) - k : b[i] = s[k + i]
  <2>1. \A i \in k + 1..Len(s) : s[i] \in S
    BY <1>1
  <2>2. k + 1 \in Int /\ Len(s) \in Int
    BY <1>1
  <2>3. /\ b \in Seq(S)
        /\ Len(b) = IF k + 1 <= Len(s) THEN Len(s) - (k + 1) + 1 ELSE 0
        /\ \A i \in 1..Len(s) - (k + 1) + 1 : b[i] = s[(k + 1) + i - 1]
    BY <2>1, <2>2, SeqSub
  <2> HIDE DEF b
  <2> QED
    BY <1>1, <2>3
<1>4. RemoveAt(s, k) = a \o b
  BY DEF RemoveAt
<1> HIDE DEF a, b
<1> DEFINE c == a \o b
<1>5. /\ c \in Seq(S) /\ Len(c) = Len(a) + Len(b)
      /\ \A i \in 1..Len(a) + Len(b) :
           c[i] = IF i <= Len(a) THEN a[i] ELSE b[i - Len(a)]
  BY <1>2, <1>3, SeqConcat, ZenonT(30)
<1> HIDE DEF c
<1>6. /\ c \in Seq(S) /\ Len(c) = Len(s) - 1
      /\ \A i \in 1..Len(s) - 1 : c[i] = IF i < k THEN s[i] ELSE s[i + 1]
  <2>1. Len(a) + Len(b) = Len(s) - 1 /\ Len(a) = k - 1
    BY <1>1, <1>2, <1>3
  <2>2. ASSUME NEW i \in 1..Len(s) - 1
        PROVE  c[i] = IF i < k THEN s[i] ELSE s[i + 1]
    <3>1. c[i] = IF i <= k - 1 THEN a[i] ELSE b[i - (k - 1)]
      BY <1>5, <2>1
    <3>2. CASE i < k
      BY <1>1, <1>2, <3>1, <3>2
    <3>3. CASE i >= k
      <4>1. i - (k - 1) \in 1..Len(s) - k /\ k + (i - (k - 1)) = i + 1
        BY <1>1, <3>3
      <4> QED
        BY <1>1, <1>3, <3>1, <3>3, <4>1
    <3> QED
      BY <1>1, <3>2, <3>3
  <2> QED
    BY <1>5, <2>1, <2>2
<1> QED
  BY <1>4, <1>6 DEF c

(* One more entry in the ready list, not in it before. *)
LEMMA AppendKeepsApart ==
    ASSUME NEW S, NEW s \in Seq(S), NEW w \in S, NEW P,
           \A i \in 1..Len(s) : s[i] \in P,
           \A i, j \in 1..Len(s) : s[i] = s[j] => i = j,
           ~Contains(s, w), w \in P
    PROVE  /\ Append(s, w) \in Seq(S)
           /\ \A i \in 1..Len(Append(s, w)) : Append(s, w)[i] \in P
           /\ \A i, j \in 1..Len(Append(s, w)) :
                Append(s, w)[i] = Append(s, w)[j] => i = j
BY DEF Contains

-----------------------------------------------------------------------------
(* A new reactor has no watcher and no batch. *)
LEMMA InitIInv == ReactorAssumption /\ Init => IInv
<1> SUFFICES ASSUME ReactorAssumption, Init PROVE IInv
  OBVIOUS
<1> USE DEF Init, ReactorAssumption
<1>1. watcher \in [W -> [fd : Fds \cup {None}, dead : BOOLEAN,
                         mem : {"unused", "live", "freed"}]]
  OBVIOUS
<1>2. TypeOK
  <2>1. watchers \in [Fds -> W \cup {None}] /\ running \in W \cup {None}
    OBVIOUS
  <2>2. ready \in Seq(W) /\ batch \in Seq(W) /\ Len(batch) <= MaxEvents
    OBVIOUS
  <2> QED
    BY ZenonT(30), <1>1, <2>1, <2>2 DEF TypeOK
<1>3. Placed
  BY DEF Placed
<1>4. ReadyIsRegistered /\ BatchIsLive
  BY SMTT(20), Z3T(20) DEF ReadyIsRegistered, BatchIsLive
<1> QED
  BY <1>2, <1>3, <1>4 DEF IInv

PCs == {"returned", "wait", "dispatch", "callback", "free", "timers",
        "timer_callback"}

(* A step of the loop that leaves the watchers and the lists alone. *)
LEMMA LoopStepKeepsIInv ==
    ASSUME IInv, UNCHANGED <<regs, batch>>, stopped' \in BOOLEAN, pc' \in PCs,
           running' \in W \cup {None}
    PROVE  IInv'
<1>1. TypeOK'
  BY DEF IInv, TypeOK, regs, PCs
<1> QED
  BY <1>1 DEF IInv, ReactorAssumption, regs, Placed, ReadyIsRegistered,
              Registered, BatchIsLive

(* The loop's own control steps touch no watcher. *)
LEMMA ControlKeepsIInv ==
    ASSUME IInv,
           \/ Run \/ Stop \/ Return \/ WaitFails \/ CallbackReturns \/ EndBatch
           \/ FireTimer \/ TimerReturns \/ EndTimers
    PROVE  IInv'
<1>1. /\ UNCHANGED <<regs, batch>> /\ stopped' \in BOOLEAN /\ pc' \in PCs
      /\ running' \in W \cup {None}
  BY Zenon DEF Run, Stop, Return, WaitFails, CallbackReturns, EndBatch, FireTimer,
         TimerReturns, EndTimers, IInv, TypeOK, PCs
<1> QED
  BY <1>1, LoopStepKeepsIInv

(* The kernel lists a registered watcher once more. *)
LEMMA ListingKeepsIInv ==
    ASSUME IInv, NEW w \in W, Registered(w), ~Contains(ready, w),
           ready' = Append(ready, w),
           UNCHANGED <<watchers, watcher, dead_list, stopped, batch, pc, running>>
    PROVE  IInv'
<1>1. /\ ready' \in Seq(W)
      /\ \A i \in 1..Len(ready') : Registered(ready'[i])
      /\ \A i, j \in 1..Len(ready') : ready'[i] = ready'[j] => i = j
  <2> DEFINE P == {v \in W : Registered(v)}
  <2>1. /\ ready \in Seq(W) /\ \A i \in 1..Len(ready) : ready[i] \in P
        /\ \A i, j \in 1..Len(ready) : ready[i] = ready[j] => i = j
    BY DEF IInv, TypeOK, ReadyIsRegistered
  <2>2. w \in P
    OBVIOUS
  <2> HIDE DEF P
  <2>3. /\ ready' \in Seq(W) /\ \A i \in 1..Len(ready') : ready'[i] \in P
        /\ \A i, j \in 1..Len(ready') : ready'[i] = ready'[j] => i = j
    BY SMTT(20), Z3T(20), <2>1, <2>2, AppendKeepsApart
  <2> QED
    BY <2>3 DEF P
<1>2. TypeOK'
  BY <1>1 DEF IInv, TypeOK
<1> QED
  BY <1>1, <1>2 DEF IInv, ReactorAssumption, Placed, ReadyIsRegistered,
                    Registered, BatchIsLive

(* cloak_reactor_mod_fd asks for a fresh edge of a registered watcher. *)
LEMMA ModFdKeepsIInv == ASSUME IInv, NEW f \in Fds, ModFd(f) PROVE IInv'
<1>1. watchers[f] \in W /\ Registered(watchers[f])
  BY DEF ModFd, IInv, TypeOK, Registered
<1> QED
  BY <1>1, ListingKeepsIInv DEF ModFd

(* An edge lists a registered watcher. *)
LEMMA EdgeKeepsIInv == ASSUME IInv, NEW w \in W, Edge(w) PROVE IInv'
<1>1. Registered(w)
  BY DEF Edge, IInv, TypeOK, Registered
<1> QED
  BY <1>1, ListingKeepsIInv DEF Edge

(* cloak_reactor_add_fd registers a fresh watcher. *)
LEMMA AddFdKeepsIInv ==
    ASSUME IInv, NEW f \in Fds, NEW w \in W, AddFd(f, w)
    PROVE  IInv'
<1> USE DEF IInv
<1>1. /\ watchers' = [watchers EXCEPT ![f] = w] /\ watchers[f] = None
      /\ watcher[w].mem = "unused"
      /\ watcher' = [watcher EXCEPT ![w] = [fd |-> f, dead |-> FALSE,
                                            mem |-> "live"]]
      /\ ready' \in {ready, Append(ready, w)}
      /\ UNCHANGED <<dead_list, stopped, batch, pc, running>>
  BY DEF AddFd
<1>2. w # None
  BY DEF W, None
<1>3. Placed'
  <2>1. \A v \in dead_list' : watcher'[v].mem = "live" /\ watcher'[v].dead
    BY SMTT(20), Z3T(20), <1>1 DEF Placed, TypeOK
  <2>2. \A g \in Fds : watchers'[g] # None =>
           /\ watcher'[watchers'[g]].mem = "live" /\ ~watcher'[watchers'[g]].dead
           /\ watcher'[watchers'[g]].fd = g
    BY <1>1 DEF Placed, TypeOK
  <2>3. ASSUME NEW v \in W, watcher'[v].mem = "live"
        PROVE  v \in dead_list' \/ \E g \in Fds : watchers'[g] = v
    <3>1. CASE v = w
      BY <1>1, <3>1 DEF TypeOK
    <3>2. CASE v # w /\ v \in dead_list
      BY <1>1, <3>2
    <3>3. CASE v # w /\ v \notin dead_list
      <4>1. watcher[v].mem = "live"
        BY ZenonT(30), <1>1, <2>3, <3>3 DEF TypeOK
      <4>2. PICK g \in Fds : watchers[g] = v
        BY <3>3, <4>1 DEF Placed
      <4>3. v # None
        BY SMTT(20), Z3T(20) DEF W, None
      <4> QED
        BY <1>1, <4>2, <4>3 DEF TypeOK
    <3> QED
      BY <3>1, <3>2, <3>3
  <2> QED
    BY ZenonT(30), <2>1, <2>2, <2>3 DEF Placed
<1>4. ~Contains(ready, w)
  BY <1>1, <1>2 DEF Contains, ReadyIsRegistered, Registered, Placed, TypeOK
<1> DEFINE P == {v \in W : \E g \in Fds : watchers'[g] = v}
<1>5. w \in P /\ \A i \in 1..Len(ready) : ready[i] \in P
  <2>1. w \in P
    BY <1>1 DEF TypeOK
  <2>2. ASSUME NEW i \in 1..Len(ready) PROVE ready[i] \in P
    <3>1. ready[i] \in W
      BY DEF TypeOK
    <3>2. PICK g \in Fds : watchers[g] = ready[i]
      BY DEF ReadyIsRegistered, Registered
    <3>3. ready[i] # None
      BY SMTT(20), Z3T(20), <3>1 DEF W, None
    <3> QED
      BY ZenonT(30), <1>1, <3>1, <3>2, <3>3 DEF TypeOK
  <2> QED
    BY <2>1, <2>2
<1> HIDE DEF P
<1>6. /\ ready' \in Seq(W) /\ \A i \in 1..Len(ready') : ready'[i] \in P
      /\ \A i, j \in 1..Len(ready') : ready'[i] = ready'[j] => i = j
  <2>1. /\ ready \in Seq(W)
        /\ \A i, j \in 1..Len(ready) : ready[i] = ready[j] => i = j
    BY DEF TypeOK, ReadyIsRegistered
  <2>2. CASE ready' = ready
    BY ZenonT(30), <1>5, <2>1, <2>2
  <2>3. CASE ready' = Append(ready, w)
    BY <1>4, <1>5, <2>1, <2>3, AppendKeepsApart
  <2> QED
    BY <1>1, <2>2, <2>3
<1>7. ReadyIsRegistered'
  BY <1>6 DEF ReadyIsRegistered, Registered, P
<1>8. BatchIsLive'
  BY <1>1 DEF BatchIsLive, TypeOK
<1>9. TypeOK'
  BY <1>1, <1>6 DEF TypeOK
<1> QED
  BY <1>3, <1>7, <1>8, <1>9 DEF ReactorAssumption

(* cloak_reactor_remove_fd: out of the table and the ready list, onto the  *)
(* dead list; the events of the batch stay.                                *)
LEMMA RemoveFdKeepsIInv == ASSUME IInv, NEW f \in Fds, RemoveFd(f) PROVE IInv'
<1> USE DEF IInv
<1> DEFINE w == watchers[f]
<1>1. /\ w \in W /\ w # None
      /\ watchers' = [watchers EXCEPT ![f] = None]
      /\ watcher' = [watcher EXCEPT ![w].dead = TRUE]
      /\ dead_list' = dead_list \cup {w}
      /\ Unready(w)
      /\ UNCHANGED <<stopped, batch, pc, running>>
  BY DEF RemoveFd, TypeOK
<1>2. \A g \in Fds : watchers[g] = w => g = f
  BY <1>1 DEF Placed
<1>3. watcher[w].mem = "live"
  BY <1>1 DEF Placed
<1> HIDE DEF w
<1>4. \A v \in W :
        /\ watcher'[v].mem = watcher[v].mem /\ watcher'[v].fd = watcher[v].fd
        /\ watcher'[v].dead = (v = w \/ watcher[v].dead)
  BY ZenonT(30), <1>1 DEF TypeOK
<1>5. Placed'
  <2>1. \A v \in dead_list' : watcher'[v].mem = "live" /\ watcher'[v].dead
    BY <1>1, <1>3, <1>4 DEF Placed, TypeOK
  <2>2. ASSUME NEW g \in Fds, watchers'[g] # None
        PROVE  /\ watcher'[watchers'[g]].mem = "live"
               /\ ~watcher'[watchers'[g]].dead
               /\ watcher'[watchers'[g]].fd = g
    <3>1. g # f /\ watchers'[g] = watchers[g] /\ watchers[g] \in W
      BY <1>1, <2>2 DEF TypeOK
    <3>2. watchers[g] # w
      BY <1>2, <3>1
    <3>3. /\ watcher[watchers[g]].mem = "live" /\ ~watcher[watchers[g]].dead
          /\ watcher[watchers[g]].fd = g
      BY <2>2, <3>1 DEF Placed
    <3> QED
      BY ZenonT(30), <1>4, <3>1, <3>2, <3>3
  <2>3. ASSUME NEW v \in W, watcher'[v].mem = "live"
        PROVE  v \in dead_list' \/ \E g \in Fds : watchers'[g] = v
    <3>1. CASE v = w \/ v \in dead_list
      BY <1>1, <3>1
    <3>2. CASE v # w /\ v \notin dead_list
      <4>1. PICK g \in Fds : watchers[g] = v
        BY ZenonT(30), <1>4, <2>3, <3>2 DEF Placed
      <4>2. g # f
        BY <3>2, <4>1 DEF w
      <4> QED
        BY ZenonT(30), <1>1, <4>1, <4>2 DEF TypeOK
    <3> QED
      BY <3>1, <3>2
  <2> QED
    BY ZenonT(30), <2>1, <2>2, <2>3 DEF Placed
<1>6. /\ ready' \in Seq(W)
      /\ \A i \in 1..Len(ready') : ready'[i] # w /\ Registered(ready'[i])
      /\ \A i, j \in 1..Len(ready') : ready'[i] = ready'[j] => i = j
  <2>1. /\ ready \in Seq(W) /\ \A i \in 1..Len(ready) : Registered(ready[i])
        /\ \A i, j \in 1..Len(ready) : ready[i] = ready[j] => i = j
    BY DEF TypeOK, ReadyIsRegistered
  <2>2. CASE ~Contains(ready, w)
    BY ZenonT(30), <1>1, <2>1, <2>2 DEF Unready, Contains
  <2>3. CASE Contains(ready, w)
    <3>1. PICK k \in 1..Len(ready) : ready[k] = w /\ ready' = RemoveAt(ready, k)
      BY <1>1, <2>3 DEF Unready
    <3>2. /\ ready' \in Seq(W) /\ Len(ready') = Len(ready) - 1
          /\ \A i \in 1..Len(ready) - 1 :
               ready'[i] = IF i < k THEN ready[i] ELSE ready[i + 1]
      BY ZenonT(30), <2>1, <3>1, RemoveAtFacts
    <3>3. \A i \in 1..Len(ready) - 1 :
             /\ i \in 1..Len(ready) /\ i + 1 \in 1..Len(ready)
      BY SMTT(20), Z3T(20), <2>1
    <3>4. \A i \in 1..Len(ready') : ready'[i] # w /\ Registered(ready'[i])
      BY SMTT(20), <2>1, <3>1, <3>2, <3>3
    <3>5. ASSUME NEW i \in 1..Len(ready'), NEW j \in 1..Len(ready'),
                 ready'[i] = ready'[j]
          PROVE  i = j
      <4> DEFINE At(m) == IF m < k THEN m ELSE m + 1
      <4>1. /\ At(i) \in 1..Len(ready) /\ At(j) \in 1..Len(ready)
            /\ ready'[i] = ready[At(i)] /\ ready'[j] = ready[At(j)]
        BY <3>2, <3>3
      <4>2. At(i) = At(j)
        BY ZenonT(30), <2>1, <3>5, <4>1
      <4> QED
        BY <2>1, <3>2, <4>2
    <3> QED
      BY ZenonT(30), <3>2, <3>4, <3>5
  <2> QED
    BY ZenonT(30), <2>2, <2>3
<1>7. ReadyIsRegistered'
  <2>1. ASSUME NEW i \in 1..Len(ready') PROVE \E g \in Fds : watchers'[g] = ready'[i]
    <3>1. PICK g \in Fds : watchers[g] = ready'[i]
      BY <1>6 DEF Registered
    <3>2. g # f
      BY <1>6, <3>1 DEF w
    <3> QED
      BY ZenonT(30), <1>1, <3>1, <3>2 DEF TypeOK
  <2> QED
    BY <1>6, <2>1 DEF ReadyIsRegistered, Registered
<1>8. BatchIsLive'
  BY <1>1, <1>4 DEF BatchIsLive, TypeOK
<1>9. TypeOK'
  <2>1. watcher' \in [W -> [fd : Fds \cup {None}, dead : BOOLEAN,
                           mem : {"unused", "live", "freed"}]]
    BY Zenon, <1>1 DEF TypeOK
  <2> QED
    BY <1>1, <1>6, <2>1 DEF TypeOK
<1> QED
  BY ZenonT(30), <1>5, <1>7, <1>8, <1>9 DEF ReactorAssumption

(* epoll_wait moves the first of the ready list into the batch. *)
LEMMA WaitKeepsIInv == ASSUME IInv, Wait PROVE IInv'
<1> USE DEF IInv
<1> DEFINE n == IF Len(ready) < MaxEvents THEN Len(ready) ELSE MaxEvents
<1>1. /\ batch' = SubSeq(ready, 1, n)
      /\ ready' = SubSeq(ready, n + 1, Len(ready))
      /\ UNCHANGED <<watchers, watcher, dead_list, stopped, running>>
      /\ pc' = "dispatch"
  BY DEF Wait
<1>2. /\ ready \in Seq(W) /\ Len(ready) \in Nat
      /\ n \in Nat /\ n <= Len(ready) /\ n <= MaxEvents
  BY DEF TypeOK, ReactorAssumption
<1>3. \A i \in 1..Len(ready) : ready[i] \in W
  BY <1>2
<1> HIDE DEF n
<1>4. /\ batch' \in Seq(W) /\ Len(batch') = n
      /\ \A i \in 1..n : batch'[i] = ready[i]
  <2>1. \A i \in 1..n : ready[i] \in W
    BY <1>2, <1>3
  <2>2. /\ batch' \in Seq(W) /\ Len(batch') = IF 1 <= n THEN n - 1 + 1 ELSE 0
        /\ \A i \in 1..n - 1 + 1 : batch'[i] = ready[1 + i - 1]
    BY <1>1, <1>2, <2>1, 1 \in Int, n \in Int, SeqSub
  <2> QED
    BY <1>2, <2>2
<1>5. /\ ready' \in Seq(W) /\ Len(ready') = Len(ready) - n
      /\ \A i \in 1..Len(ready) - n : ready'[i] = ready[n + i]
  <2>1. \A i \in n + 1..Len(ready) : ready[i] \in W
    BY <1>2, <1>3
  <2>2. n + 1 \in Int /\ Len(ready) \in Int
    BY SMTT(20), Z3T(20), <1>2
  <2>3. /\ ready' \in Seq(W)
        /\ Len(ready') = IF n + 1 <= Len(ready) THEN Len(ready) - (n + 1) + 1 ELSE 0
        /\ \A i \in 1..Len(ready) - (n + 1) + 1 : ready'[i] = ready[(n + 1) + i - 1]
    BY <1>1, <2>1, <2>2, SeqSub
  <2>4. Len(ready') = Len(ready) - n
    BY <1>2, <2>3
  <2>5. ASSUME NEW i \in 1..Len(ready) - n PROVE ready'[i] = ready[n + i]
    <3>1. i \in 1..Len(ready) - (n + 1) + 1 /\ (n + 1) + i - 1 = n + i
      BY <1>2
    <3> QED
      BY <2>3, <3>1
  <2> QED
    BY ZenonT(30), <2>3, <2>4, <2>5
<1>6. BatchIsLive'
  <2> SUFFICES ASSUME NEW i \in 1..n PROVE watcher[ready[i]].mem = "live"
    BY ZenonT(30), <1>1, <1>4 DEF BatchIsLive
  <2>1. i \in 1..Len(ready) /\ ready[i] \in W
    BY <1>2, <1>3
  <2>2. PICK f \in Fds : watchers[f] = ready[i]
    BY <2>1 DEF ReadyIsRegistered, Registered
  <2>3. ready[i] # None
    BY <2>1 DEF W, None
  <2> QED
    BY <2>2, <2>3 DEF Placed
<1>7. ReadyIsRegistered'
  <2>1. \A i \in 1..Len(ready') : n + i \in 1..Len(ready) /\ ready'[i] = ready[n + i]
    BY <1>2, <1>5
  <2>2. ASSUME NEW i \in 1..Len(ready')
        PROVE  \E f \in Fds : watchers'[f] = ready'[i]
    <3>1. Registered(ready[n + i])
      BY SMTT(20), Z3T(20), <2>1 DEF ReadyIsRegistered
    <3> QED
      BY ZenonT(30), <1>1, <2>1, <3>1 DEF Registered
  <2>3. \A i, j \in 1..Len(ready') : ready'[i] = ready'[j] => i = j
    BY <1>2, <1>5, <2>1 DEF ReadyIsRegistered
  <2> QED
    BY <2>2, <2>3 DEF ReadyIsRegistered, Registered
<1>8. TypeOK'
  BY ZenonT(30), <1>1, <1>2, <1>4, <1>5 DEF TypeOK
<1> QED
  BY ZenonT(30), <1>1, <1>6, <1>7, <1>8 DEF ReactorAssumption, Placed

(* The next event is looked at, for a dead watcher or a live one. *)
LEMMA NextEventKeepsIInv == ASSUME IInv, Skip \/ Dispatch PROVE IInv'
<1> USE DEF IInv
<1>1. /\ batch # <<>> /\ batch' = Tail(batch)
      /\ UNCHANGED <<watchers, watcher, dead_list, ready, stopped>>
      /\ pc' \in {pc, "callback"} /\ running' \in {running, Head(batch)}
  BY DEF Skip, Dispatch, regs
<1>2. /\ Head(batch) \in W /\ batch' \in Seq(W) /\ Len(batch') = Len(batch) - 1
      /\ \A i \in 1..Len(batch') : batch'[i] = batch[i + 1]
  BY <1>1, SeqTail DEF TypeOK
<1>3. BatchIsLive'
  BY <1>1, <1>2 DEF BatchIsLive, TypeOK
<1>4. TypeOK'
  BY <1>1, <1>2 DEF TypeOK, ReactorAssumption
<1> QED
  BY <1>1, <1>3, <1>4 DEF ReactorAssumption, Placed, ReadyIsRegistered, Registered

(* After the batch the dead list is freed, which no event is left to name. *)
LEMMA FreeDeadKeepsIInv == ASSUME IInv, FreeDead PROVE IInv'
<1> USE DEF IInv
<1>1. /\ watcher' = [w \in W |-> IF w \in dead_list
                                 THEN [watcher[w] EXCEPT !.mem = "freed"]
                                 ELSE watcher[w]]
      /\ dead_list' = {} /\ batch' = <<>> /\ pc' \in {"wait", "timers"}
      /\ UNCHANGED <<watchers, ready, stopped, running>>
  BY DEF FreeDead
<1>2. \A w \in W :
        /\ w \in dead_list => watcher'[w].mem = "freed"
        /\ w \notin dead_list => /\ watcher'[w].mem = watcher[w].mem
                                 /\ watcher'[w].dead = watcher[w].dead
                                 /\ watcher'[w].fd = watcher[w].fd
  BY <1>1 DEF TypeOK
<1>3. TypeOK'
  <2>1. watcher' \in [W -> [fd : Fds \cup {None}, dead : BOOLEAN,
                           mem : {"unused", "live", "freed"}]]
    BY ZenonT(30), <1>1 DEF TypeOK
  <2>2. batch' \in Seq(W) /\ Len(batch') <= MaxEvents
    BY SMTT(20), Z3T(20), <1>1 DEF ReactorAssumption
  <2> QED
    BY <1>1, <2>1, <2>2 DEF TypeOK
<1>4. Placed'
  <2>1. ASSUME NEW f \in Fds, watchers[f] # None
        PROVE  /\ watcher'[watchers[f]].mem = "live"
               /\ ~watcher'[watchers[f]].dead
               /\ watcher'[watchers[f]].fd = f
    <3>1. /\ watchers[f] \in W /\ ~watcher[watchers[f]].dead
          /\ watcher[watchers[f]].mem = "live" /\ watcher[watchers[f]].fd = f
      BY SMTT(20), Z3T(20), <2>1 DEF Placed, TypeOK
    <3>2. watchers[f] \notin dead_list
      BY <3>1 DEF Placed
    <3> QED
      BY SMTT(20), Z3T(20), <1>2, <3>1, <3>2
  <2>2. ASSUME NEW w \in W, watcher'[w].mem = "live"
        PROVE  \E f \in Fds : watchers'[f] = w
    BY <1>1, <1>2, <2>2 DEF Placed
  <2> QED
    BY SMTT(20), Z3T(20), <1>1, <2>1, <2>2 DEF Placed
<1>5. ReadyIsRegistered' /\ BatchIsLive'
  BY <1>1 DEF ReadyIsRegistered, Registered, BatchIsLive
<1> QED
  BY <1>3, <1>4, <1>5 DEF ReactorAssumption

(* Every step of the reactor keeps the inductive invariant. *)
LEMMA NextKeepsIInv == IInv /\ [Next]_vars => IInv'
<1> SUFFICES ASSUME IInv, [Next]_vars PROVE IInv'
  OBVIOUS
<1>1. CASE Turn
  BY <1>1, ControlKeepsIInv, WaitKeepsIInv, NextEventKeepsIInv, FreeDeadKeepsIInv
     DEF Turn
<1>2. CASE Owner
  BY ZenonT(30), <1>2, ControlKeepsIInv, ModFdKeepsIInv, RemoveFdKeepsIInv, AddFdKeepsIInv
     DEF Owner
<1>3. ASSUME NEW w \in W, Edge(w) PROVE IInv'
  BY ZenonT(30), <1>3, EdgeKeepsIInv
<1>4. CASE UNCHANGED vars
  BY <1>4, LoopStepKeepsIInv DEF vars, regs, IInv, TypeOK, PCs
<1> QED
  BY ZenonT(30), <1>1, <1>2, <1>3, <1>4 DEF Next

-----------------------------------------------------------------------------
(* The loop never touches a freed watcher, and the table and the dead list *)
(* own each watcher exactly once (cloak_reactor_add_fd,                    *)
(* cloak_reactor_remove_fd and the end of a batch).                        *)
THEOREM WatchersAreSafe == ReactorAssumption /\ Spec => []ReactorIsSound
<1>1. IInv => ReactorIsSound
  <2> SUFFICES ASSUME IInv PROVE ReactorIsSound
    OBVIOUS
  <2> USE DEF IInv
  <2>1. \A f \in Fds : watchers[f] # None => watcher[watchers[f]].mem = "live"
    BY DEF Placed
  <2>2. \A w \in ToSet(ready) : watcher[w].mem = "live"
    <3> SUFFICES ASSUME NEW i \in 1..Len(ready) PROVE watcher[ready[i]].mem = "live"
      BY DEF ToSet, TypeOK
    <3>1. ready[i] \in W
      BY DEF TypeOK
    <3>2. ready[i] # None
      BY <3>1 DEF W, None
    <3> QED
      BY ZenonT(30), <3>2, <2>1 DEF ReadyIsRegistered, Registered
  <2>3. \A w \in ToSet(batch) : watcher[w].mem = "live"
    BY DEF ToSet, TypeOK, BatchIsLive
  <2>4. NoDanglingWatcher
    BY ZenonT(30), <2>1, <2>2, <2>3 DEF NoDanglingWatcher, Placed
  <2>5. OwnedOnce
    <3> SUFFICES ASSUME NEW w \in W, watcher[w].mem = "live"
                 PROVE  (w \in dead_list) # (\E f \in Fds : watchers[f] = w)
      BY Zenon DEF OwnedOnce
    <3>1. w # None
      BY DEF W, None
    <3>2. w \in dead_list => ~\E f \in Fds : watchers[f] = w
      BY <3>1 DEF Placed
    <3>3. w \in dead_list \/ \E f \in Fds : watchers[f] = w
      BY DEF Placed
    <3> QED
      BY ZenonT(30), <3>2, <3>3
  <2> QED
    BY <2>4, <2>5 DEF ReactorIsSound
<1> QED
  BY InitIInv, NextKeepsIInv, <1>1, PTL DEF Spec

(* A callback is only called for the watcher that is registered for its    *)
(* descriptor, whatever the callbacks before it in the batch removed,      *)
(* closed and registered again (the dispatch loop of                       *)
(* cloak_reactor_run_once).                                                *)
THEOREM DispatchIsFresh == ReactorAssumption /\ Spec => NoStaleDispatch
<1>1. IInv /\ [Next]_vars => [DispatchesLive]_vars
  <2> SUFFICES ASSUME IInv, Next, pc' = "callback", pc # "callback"
               PROVE  watchers[watcher[running'].fd] = running'
    BY DEF DispatchesLive
  <2>1. Dispatch
    BY Zenon DEF Next, Turn, Owner, Run, Stop, Wait, WaitFails, Return, Skip,
           CallbackReturns, EndBatch, FreeDead, FireTimer, TimerReturns,
           EndTimers, ModFd, RemoveFd, AddFd, Edge
  <2> DEFINE w == Head(batch)
  <2>2. running' = w /\ batch # <<>> /\ ~watcher[w].dead
    BY <2>1 DEF Dispatch
  <2>3. w \in W /\ w = batch[1] /\ Len(batch) >= 1
    BY <2>2, SeqTail DEF IInv, TypeOK
  <2>4. watcher[w].mem = "live"
    BY <2>3 DEF IInv, TypeOK, BatchIsLive
  <2>5. w \notin dead_list /\ w # None
    BY <2>2, <2>3 DEF IInv, Placed, W, None
  <2>6. PICK f \in Fds : watchers[f] = w
    BY ZenonT(30), <2>3, <2>4, <2>5 DEF IInv, Placed
  <2>7. watcher[w].fd = f
    BY <2>5, <2>6 DEF IInv, Placed
  <2> QED
    BY ZenonT(30), <2>2, <2>6, <2>7
<1> QED
  BY InitIInv, NextKeepsIInv, <1>1, PTL DEF Spec, NoStaleDispatch
=============================================================================
