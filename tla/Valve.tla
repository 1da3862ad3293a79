------------------------------- MODULE Valve -------------------------------
(***************************************************************************)
(* One direction of cloak_valve_t (libcloak-mux/src/valve.c): the meter    *)
(* that is drained for billing, and the token bucket that paces transfers. *)
(* Tokens are bytes times VALVE_MILLI, so that one millisecond at rate     *)
(* bytes per second accrues rate of them.                                  *)
(*                                                                         *)
(* A caller asks (take), moves bytes and reports them (add), or is refused *)
(* and arms a timer for the delay the valve computes; the clock may move   *)
(* between any two of these, and other callers share the bucket.  A read   *)
(* moves no more than it was granted; a frame that was granted one byte is *)
(* sent whole, and leaves a debt.                                          *)
(***************************************************************************)
EXTENDS Integers, FiniteSetsExt

CONSTANTS VALVE_MILLI,
          Rates,      \* the rates set_rates is given; 0 is unlimited
          MaxBytes,   \* the largest transfer reported at once
          MaxNow, MaxMoved   \* bounds: the clock, the bytes moved

ValveAssumption ==
    /\ VALVE_MILLI \in Nat \ {0} /\ Rates \subseteq Nat
    /\ MaxBytes \in Nat \ {0} /\ MaxNow \in Nat /\ MaxMoved \in Nat

VARIABLES
    bucket,      \* rate, capacity, tokens, last_refill
    meter,       \* v->rx (or tx)
    now,
    waiter,      \* a refused caller: asking, or armed to resume at a time
    moved,       \* history: bytes moved in all,
    billed,      \* of them drained,
    since        \* and at what time, and after how many, the rate was set

vars == <<bucket, meter, now, waiter, moved, billed, since>>

VALVE_FULL_AFTER_MS == 2 * VALVE_MILLI
NoWaiter == [state |-> "none", at |-> 0, undisturbed |-> TRUE]

TypeOK ==
    /\ bucket.rate \in Nat /\ bucket.capacity = bucket.rate * VALVE_MILLI
    /\ bucket.tokens \in -bucket.capacity..bucket.capacity
    /\ bucket.last_refill \in 0..now
    /\ meter \in Nat /\ now \in Nat /\ moved \in Nat /\ billed \in Nat
    /\ waiter.state \in {"none", "refused", "armed"} /\ waiter.at \in Nat

(* bucket_set_rate: a full bucket. *)
BucketSetRate(r) ==
    [rate |-> r, capacity |-> r * VALVE_MILLI, tokens |-> r * VALVE_MILLI,
     last_refill |-> now]

Init ==
    /\ now = 0 /\ bucket \in {BucketSetRate(r) : r \in Rates}
    /\ meter = 0 /\ waiter = NoWaiter /\ moved = 0 /\ billed = 0
    /\ since = [now |-> 0, moved |-> 0]

----------------------------------------------------------------------------
(* Mutant: a bucket is full after one second of idling, debt or not. *)
RefillEarly(b) ==
    LET elapsed == now - b.last_refill IN
    [b EXCEPT !.last_refill = now,
              !.tokens = IF elapsed >= VALVE_MILLI THEN b.capacity
                         ELSE Min({b.capacity, @ + b.rate * elapsed})]
(* bucket_refill *)
Refill(b) ==
    LET elapsed == now - b.last_refill IN
    [b EXCEPT !.last_refill = now,
              !.tokens = IF elapsed >= VALVE_FULL_AFTER_MS THEN b.capacity
                         ELSE Min({b.capacity, @ + b.rate * elapsed})]

(* bucket_available: C division truncates, and a debt is no byte. *)
Available(b) == IF b.tokens < 0 THEN 0 ELSE b.tokens \div VALVE_MILLI

(* bucket_spend: debt is limited to one second's worth. *)
Spend(b, n) ==
    [b EXCEPT !.tokens = IF @ < n * VALVE_MILLI - b.capacity THEN -b.capacity
                         ELSE @ - n * VALVE_MILLI]

(* Mutant: the delay is rounded down. *)
DelayFloor(b) ==
    LET need == VALVE_MILLI - b.tokens
    IN  IF need <= 0 THEN 1 ELSE Max({1, need \div b.rate})
(* bucket_delay_ms of a refilled bucket. *)
Delay(b) ==
    LET need == VALVE_MILLI - b.tokens
    IN  IF need <= 0 THEN 1 ELSE Max({1, (need + b.rate - 1) \div b.rate})

HasRate == bucket.rate # 0

(* cloak_valve_add_rx after a read, cloak_valve_add_tx after a frame. *)
Add(b, n) ==
    /\ moved + n <= MaxMoved
    /\ meter' = meter + n /\ moved' = moved + n
    /\ bucket' = IF HasRate THEN Spend(b, n) ELSE b
    /\ waiter' = [waiter EXCEPT !.undisturbed = FALSE]
    /\ UNCHANGED <<now, billed, since>>

(* take, then a read of at most what it allows. *)
Read(n) ==
    LET b == IF HasRate THEN Refill(bucket) ELSE bucket IN
    /\ HasRate => n <= Available(b)
    /\ Add(b, n)

(* take, then a whole frame if it allows a byte. *)
SendFrame(n) ==
    LET b == IF HasRate THEN Refill(bucket) ELSE bucket IN
    /\ HasRate => Available(b) > 0
    /\ Add(b, n)

(* take allows nothing: the caller is about to pause. *)
Refuse ==
    /\ HasRate /\ waiter.state = "none" /\ Available(Refill(bucket)) = 0
    /\ bucket' = Refill(bucket)
    /\ waiter' = [state |-> "refused", at |-> 0, undisturbed |-> TRUE]
    /\ UNCHANGED <<meter, now, moved, billed, since>>

(* cloak_valve_rx_resume_delay_ms: the clock is read again, and the rate   *)
(* may be another one by now; an unlimited direction has no delay.         *)
Arm ==
    /\ waiter.state = "refused"
    /\ bucket' = IF HasRate THEN Refill(bucket) ELSE bucket
    /\ waiter' = [state |-> "armed", undisturbed |-> TRUE,
                  at |-> now + (IF HasRate THEN Delay(Refill(bucket)) ELSE 0)]
    /\ UNCHANGED <<meter, now, moved, billed, since>>

(* The timer fires and the caller asks again. *)
Resume ==
    /\ waiter.state = "armed" /\ now >= waiter.at
    /\ waiter' = NoWaiter
    /\ bucket' = IF HasRate THEN Refill(bucket) ELSE bucket
    /\ UNCHANGED <<meter, now, moved, billed, since>>

(* cloak_valve_nullify: the buckets are left alone. *)
Nullify ==
    /\ billed' = billed + meter /\ meter' = 0
    /\ UNCHANGED <<bucket, now, waiter, moved, since>>

(* cloak_valve_set_rates *)
SetRates(r) ==
    /\ bucket' = BucketSetRate(r) /\ since' = [now |-> now, moved |-> moved]
    /\ UNCHANGED <<meter, now, waiter, moved, billed>>

Tick(d) ==
    /\ now + d <= MaxNow /\ now' = now + d
    /\ UNCHANGED <<bucket, meter, waiter, moved, billed, since>>

Next ==
    \/ \E n \in 1..MaxBytes : Read(n) \/ SendFrame(n)
    \/ Refuse \/ Arm \/ Resume \/ Nullify
    \/ \E r \in Rates : SetRates(r)
    \/ \E d \in 1..VALVE_FULL_AFTER_MS : Tick(d)

Spec == Init /\ [][Next]_vars

----------------------------------------------------------------------------
(* The bucket is well typed, its debt included, and every byte moved is    *)
(* billed once: what the drains collected and what the meter holds add up, *)
(* whatever rates were set in between.                                     *)
BilledOnce == TypeOK /\ billed + meter = moved

(* The rate is kept: since it was set, no more was moved than one bucket   *)
(* and what accrued, plus at most one transfer in advance that the debt    *)
(* repays.  It takes a bucket of at least the largest transfer, since debt *)
(* beyond one second is forgiven.                                          *)
RateIsKept ==
    HasRate /\ MaxBytes <= bucket.rate =>
        (moved - since.moved) * VALVE_MILLI + bucket.tokens
            <= bucket.capacity + bucket.rate * (bucket.last_refill - since.now)

(* A caller that waits as long as it was told to finds at least one byte,  *)
(* unless another caller has moved bytes in the meantime: bucket_delay_ms  *)
(* rounds up, and never says 0 in a limited direction.                     *)
WaitsEnough ==
    Resume /\ waiter.undisturbed /\ bucket.rate # 0 => Available(bucket') > 0

(* A refused caller gets a timer that is due in the future, though the     *)
(* byte it missed may have accrued before it asked for the delay, and no   *)
(* more than two seconds later, however deep the bucket is in debt.        *)
PausesShortly ==
    Arm /\ HasRate => waiter'.at \in now + 1..now + 2 * VALVE_MILLI

(* What bucket_delay_ms tells a caller to wait is right in both respects:  *)
(* long enough to find a byte, and neither nothing nor more than two       *)
(* seconds.                                                                *)
WaitIsRight == WaitsEnough /\ PausesShortly
=============================================================================
