---------------------------- MODULE ValveProofs -----------------------------
(***************************************************************************)
(* For every rate, every size of a transfer and every run of the clock: a  *)
(* direction of a valve bills each byte once, keeps its rate, and tells a  *)
(* refused caller a wait that is long enough and short.                    *)
(*                                                                         *)
(* The inductive invariant adds to the properties that the debt never      *)
(* exceeds a second's worth (Bounded), so that VALVE_FULL_AFTER_MS of      *)
(* idling really fills the bucket, and that a timer which is armed and not *)
(* disturbed fires when a byte has accrued (ArmedIsEnough).                *)
(***************************************************************************)
EXTENDS Valve, TLAPS

(* A limited bucket, or one of rate 0, as bucket_set_rate makes it. *)
Bounded ==
    /\ bucket \in [rate : Nat, capacity : Nat, tokens : Int, last_refill : Nat]
    /\ bucket.capacity = bucket.rate * VALVE_MILLI
    /\ -bucket.capacity <= bucket.tokens /\ bucket.tokens <= bucket.capacity
    /\ bucket.last_refill <= now

Typed ==
    /\ meter \in Nat /\ now \in Nat /\ moved \in Nat /\ billed \in Nat
    /\ waiter \in [state : {"none", "refused", "armed"}, at : Nat,
                   undisturbed : BOOLEAN]
    /\ since \in [now : Nat, moved : Nat]

Billed == billed + meter = moved

ArmedIsEnough ==
    waiter.state = "armed" /\ waiter.undisturbed /\ HasRate =>
        \/ bucket.tokens >= VALVE_MILLI
        \/ /\ waiter.at >= bucket.last_refill
           /\ bucket.tokens + bucket.rate * (waiter.at - bucket.last_refill)
                >= VALVE_MILLI

IInv == ValveAssumption /\ Bounded /\ Typed /\ Billed /\ RateIsKept
        /\ ArmedIsEnough

-----------------------------------------------------------------------------
(* Min and Max of FiniteSetsExt, on two integers. *)
LEMMA MinOfTwo ==
    ASSUME NEW a \in Int, NEW b \in Int
    PROVE  Min({a, b}) = IF a <= b THEN a ELSE b
<1>1. \E x \in {a, b} : \A y \in {a, b} : x <= y
  OBVIOUS
<1>2. Min({a, b}) \in {a, b} /\ \A y \in {a, b} : Min({a, b}) <= y
  BY <1>1 DEF Min
<1> QED
  BY <1>2

(* The larger of two integers, as the buckets compute it. *)
LEMMA MaxOfTwo ==
    ASSUME NEW a \in Int, NEW b \in Int
    PROVE  Max({a, b}) = IF a >= b THEN a ELSE b
<1>1. \E x \in {a, b} : \A y \in {a, b} : x >= y
  OBVIOUS
<1>2. Max({a, b}) \in {a, b} /\ \A y \in {a, b} : Max({a, b}) >= y
  BY <1>1 DEF Max
<1> QED
  BY <1>2

(* Multiplication is monotone, and what \div rounds away is short of b. *)
LEMMA Monotone ==
    ASSUME NEW r \in Nat, NEW a \in Int, NEW b \in Int, a <= b
    PROVE  r * a <= r * b /\ a * r <= b * r
OBVIOUS

(* What division rounded down leaves. *)
LEMMA Division ==
    ASSUME NEW a \in Int, NEW b \in Nat \ {0}
    PROVE  /\ a \div b \in Int
           /\ b * (a \div b) <= a
           /\ a < b * (a \div b) + b
OBVIOUS

-----------------------------------------------------------------------------
(* bucket_refill: the tokens of the elapsed time, up to a full bucket. *)
LEMMA RefillFacts ==
    ASSUME ValveAssumption, Bounded, now \in Nat
    PROVE  /\ Refill(bucket) = [bucket EXCEPT !.last_refill = now,
                                              !.tokens = Refill(bucket).tokens]
           /\ Refill(bucket).tokens \in Int
           /\ Refill(bucket).tokens <= bucket.capacity
           /\ bucket.tokens <= Refill(bucket).tokens
           /\ Refill(bucket).tokens <=
                bucket.tokens + bucket.rate * (now - bucket.last_refill)
           /\ \/ Refill(bucket).tokens = bucket.capacity
              \/ Refill(bucket).tokens =
                   bucket.tokens + bucket.rate * (now - bucket.last_refill)
<1> DEFINE elapsed == now - bucket.last_refill
           r == bucket.rate
           gain == r * elapsed
           t == Refill(bucket).tokens
<1>1. elapsed \in Nat /\ r \in Nat /\ VALVE_MILLI \in Nat
  BY DEF Bounded, ValveAssumption
<1>2. gain \in Nat
  BY <1>1
<1>3. elapsed >= VALVE_FULL_AFTER_MS => gain >= 2 * bucket.capacity
  <2> SUFFICES ASSUME elapsed >= 2 * VALVE_MILLI
               PROVE  gain >= 2 * bucket.capacity
    BY DEF VALVE_FULL_AFTER_MS
  <2>1. r * (2 * VALVE_MILLI) <= r * elapsed
    BY <1>1, Monotone
  <2> QED
    BY <1>1, <2>1 DEF Bounded
<1>4. t = IF elapsed >= VALVE_FULL_AFTER_MS THEN bucket.capacity
          ELSE Min({bucket.capacity, bucket.tokens + gain})
  BY DEF Refill, Bounded
<1>5. bucket.tokens \in Int /\ bucket.capacity \in Nat
  BY DEF Bounded
<1>6. Min({bucket.capacity, bucket.tokens + gain}) =
        IF bucket.capacity <= bucket.tokens + gain THEN bucket.capacity
        ELSE bucket.tokens + gain
  BY <1>2, <1>5, MinOfTwo
<1>7. t = IF elapsed >= VALVE_FULL_AFTER_MS THEN bucket.capacity
          ELSE IF bucket.capacity <= bucket.tokens + gain THEN bucket.capacity
          ELSE bucket.tokens + gain
  BY <1>4, <1>6
<1>8. Refill(bucket) = [bucket EXCEPT !.last_refill = now, !.tokens = t]
  BY DEF Refill, Bounded
<1> HIDE DEF gain, t
<1>9. -bucket.capacity <= bucket.tokens /\ bucket.tokens <= bucket.capacity
  BY DEF Bounded
<1>10. t \in Int /\ t <= bucket.capacity /\ bucket.tokens <= t
       /\ t <= bucket.tokens + gain
       /\ (t = bucket.capacity \/ t = bucket.tokens + gain)
  BY <1>2, <1>3, <1>5, <1>7, <1>9
<1> QED
  BY <1>8, <1>10 DEF gain, t

(* A refill leaves the bucket well formed and the rate kept. *)
LEMMA RefillIsSound ==
    ASSUME ValveAssumption, Bounded, Typed, RateIsKept
    PROVE  LET b == Refill(bucket)
           IN /\ b \in [rate : Nat, capacity : Nat, tokens : Int,
                        last_refill : Nat]
              /\ b.rate = bucket.rate /\ b.capacity = bucket.capacity
              /\ b.last_refill = now
              /\ -b.capacity <= b.tokens /\ b.tokens <= b.capacity
              /\ HasRate /\ MaxBytes <= bucket.rate =>
                   (moved - since.moved) * VALVE_MILLI + b.tokens
                     <= b.capacity + b.rate * (now - since.now)
<1> DEFINE b == Refill(bucket)
           r == bucket.rate
           m == (moved - since.moved) * VALVE_MILLI
<1>1. now \in Nat /\ since.now \in Nat /\ since.moved \in Nat /\ moved \in Nat
      /\ VALVE_MILLI \in Nat
  BY DEF Typed, ValveAssumption
<1>2. /\ b = [bucket EXCEPT !.last_refill = now, !.tokens = b.tokens]
      /\ b.tokens \in Int /\ b.tokens <= bucket.capacity
      /\ bucket.tokens <= b.tokens
      /\ b.tokens <= bucket.tokens + r * (now - bucket.last_refill)
  BY <1>1, RefillFacts
<1>3. bucket \in [rate : Nat, capacity : Nat, tokens : Int, last_refill : Nat]
      /\ -bucket.capacity <= bucket.tokens
  BY DEF Bounded
<1> HIDE DEF b
<1>4. b \in [rate : Nat, capacity : Nat, tokens : Int, last_refill : Nat]
      /\ b.rate = r /\ b.capacity = bucket.capacity /\ b.last_refill = now
  BY Zenon, <1>1, <1>2, <1>3
<1>5. -b.capacity <= b.tokens
  BY <1>2, <1>3, <1>4
<1>6. ASSUME HasRate, MaxBytes <= r
      PROVE  m + b.tokens <= b.capacity + r * (now - since.now)
  <2>1. m + bucket.tokens <= bucket.capacity + r * (bucket.last_refill - since.now)
    BY <1>6 DEF RateIsKept
  <2>2. r * (bucket.last_refill - since.now) + r * (now - bucket.last_refill)
          = r * (now - since.now)
    BY <1>1, <1>3
  <2>3. m \in Int /\ r * (bucket.last_refill - since.now) \in Int
        /\ r * (now - bucket.last_refill) \in Int
    BY <1>1, <1>3
  <2> HIDE DEF m
  <2> QED
    BY <1>2, <1>3, <1>4, <2>1, <2>2, <2>3
<1> QED
  BY <1>2, <1>4, <1>5, <1>6 DEF b

(* bucket_available: a byte is there exactly if its tokens are. *)
LEMMA AvailableIsAByte ==
    ASSUME NEW b, b.tokens \in Int, ValveAssumption
    PROVE  /\ Available(b) \in Int
           /\ Available(b) > 0 <=> b.tokens >= VALVE_MILLI
<1>1. VALVE_MILLI \in Nat \ {0}
  BY DEF ValveAssumption
<1> DEFINE q == b.tokens \div VALVE_MILLI
<1>2. q \in Int /\ VALVE_MILLI * q <= b.tokens /\ b.tokens < VALVE_MILLI * q + VALVE_MILLI
  BY Zenon, <1>1, Division
<1>3. Available(b) = IF b.tokens < 0 THEN 0 ELSE q
  BY DEF Available
<1> HIDE DEF q
<1>4. q > 0 => VALVE_MILLI * 1 <= VALVE_MILLI * q
  BY <1>1, <1>2, Monotone
<1>5. q <= 0 => VALVE_MILLI * q <= VALVE_MILLI * 0
  BY <1>1, <1>2, Monotone
<1> QED
  BY <1>1, <1>2, <1>3, <1>4, <1>5

(* What the bucket is after cloak_valve_take: refilled if it has a rate. *)
Taken == IF HasRate THEN Refill(bucket) ELSE bucket

(* cloak_valve_add_rx and cloak_valve_add_tx, after a take that granted at *)
(* least one byte: the debt is bounded, and if the largest transfer is not *)
(* larger than the bucket none of it is forgiven.                          *)
LEMMA AddKeepsIInv ==
    ASSUME IInv, NEW n \in 1..MaxBytes, Add(Taken, n),
           HasRate => Available(Taken) > 0
    PROVE  IInv'
<1> DEFINE b == Refill(bucket)
           M == VALVE_MILLI
           m == (moved - since.moved) * M
<1>1. /\ ValveAssumption /\ Bounded /\ Typed /\ Billed /\ RateIsKept
      /\ M \in Nat \ {0} /\ n \in Nat \ {0} /\ n <= MaxBytes
      /\ MaxBytes \in Nat
  BY DEF IInv, ValveAssumption
<1>2. /\ meter' = meter + n /\ moved' = moved + n
      /\ waiter' = [waiter EXCEPT !.undisturbed = FALSE]
      /\ now' = now /\ billed' = billed /\ since' = since
  BY DEF Add
<1>3. Typed' /\ Billed' /\ ArmedIsEnough' /\ ValveAssumption'
  <2>1. waiter' \in [state : {"none", "refused", "armed"}, at : Nat,
                     undisturbed : BOOLEAN] /\ ~waiter'.undisturbed
    BY Zenon, <1>1, <1>2 DEF Typed
  <2>2. Typed'
    BY <1>1, <1>2, <2>1 DEF Typed
  <2>3. Billed'
    BY <1>1, <1>2 DEF Typed, Billed
  <2>4. ArmedIsEnough'
    BY <2>1 DEF ArmedIsEnough
  <2> QED
    BY <1>1, <2>2, <2>3, <2>4 DEF ValveAssumption
<1>4. CASE ~HasRate
  <2>1. bucket' = bucket
    BY <1>4 DEF Add, Taken
  <2>2. Bounded' /\ RateIsKept'
    BY <1>1, <1>2, <1>4, <2>1 DEF Bounded, RateIsKept, HasRate
  <2> QED
    BY <1>3, <2>2 DEF IInv
<1>5. CASE HasRate
  <2>1. bucket' = Spend(b, n)
    BY <1>5 DEF Add, Taken
  <2>2. /\ b \in [rate : Nat, capacity : Nat, tokens : Int, last_refill : Nat]
        /\ b.rate = bucket.rate /\ b.capacity = bucket.capacity
        /\ b.last_refill = now /\ -b.capacity <= b.tokens
        /\ b.tokens <= b.capacity
        /\ MaxBytes <= bucket.rate =>
             m + b.tokens <= b.capacity + b.rate * (now - since.now)
    BY <1>1, <1>5, RefillIsSound
  <2>3. b.tokens >= M
    BY <1>1, <1>5, <2>2, AvailableIsAByte DEF Taken
  <2>4. b.capacity = b.rate * M
    BY <1>1, <2>2 DEF Bounded
  <2> HIDE DEF b
  <2>5. n * M \in Nat /\ now \in Nat
    BY <1>1 DEF Typed
  <2>6. /\ bucket' = [b EXCEPT !.tokens = bucket'.tokens]
        /\ bucket'.tokens = IF b.tokens < n * M - b.capacity THEN -b.capacity
                            ELSE b.tokens - n * M
    BY <2>1, <2>2 DEF Spend
  <2>7. bucket'.tokens \in Int /\ -b.capacity <= bucket'.tokens
        /\ bucket'.tokens <= b.capacity
    BY <2>2, <2>5, <2>6
  <2>8. /\ bucket' \in [rate : Nat, capacity : Nat, tokens : Int, last_refill : Nat]
        /\ bucket'.rate = b.rate /\ bucket'.capacity = b.capacity
        /\ bucket'.last_refill = now
    BY <2>2, <2>6, <2>7
  <2>9. Bounded'
    BY <1>2, <2>2, <2>4, <2>5, <2>7, <2>8 DEF Bounded
  <2>10. ASSUME MaxBytes <= b.rate
         PROVE  (moved' - since.moved) * M + bucket'.tokens
                  <= b.capacity + b.rate * (now - since.now)
    <3>1. n * M <= b.capacity
      BY <1>1, <2>2, <2>4, <2>10, Monotone
    <3>2. bucket'.tokens = b.tokens - n * M
      BY <1>1, <2>2, <2>3, <2>5, <2>6, <3>1
    <3>3. (moved' - since.moved) * M = m + n * M /\ m \in Int
      BY <1>1, <1>2 DEF Typed
    <3>4. m + b.tokens <= b.capacity + b.rate * (now - since.now)
      BY <2>2, <2>10
    <3>5. b.rate * (now - since.now) \in Int
      BY <1>1, <2>2 DEF Typed
    <3> HIDE DEF m
    <3> QED
      BY <2>2, <2>5, <3>2, <3>3, <3>4, <3>5
  <2>11. RateIsKept'
    BY <1>2, <2>8, <2>10 DEF RateIsKept, HasRate
  <2> QED
    BY <1>3, <2>9, <2>11 DEF IInv
<1> QED
  BY <1>4, <1>5

(* A read takes no more than is available and is billed once. *)
LEMMA ReadKeepsIInv ==
    ASSUME IInv, NEW n \in 1..MaxBytes, Read(n)
    PROVE  IInv'
<1>1. Add(Taken, n) /\ (HasRate => n <= Available(Taken))
  BY DEF Read, Taken
<1>2. HasRate => Taken.tokens \in Int
  BY RefillIsSound DEF Taken, IInv
<1>3. HasRate => Available(Taken) > 0
  BY <1>1, <1>2, AvailableIsAByte DEF IInv, ValveAssumption
<1> QED
  BY <1>1, <1>3, AddKeepsIInv

(* A frame is sent when any token is available, and may run into debt. *)
LEMMA SendFrameKeepsIInv ==
    ASSUME IInv, NEW n \in 1..MaxBytes, SendFrame(n)
    PROVE  IInv'
<1>1. Add(Taken, n) /\ (HasRate => Available(Taken) > 0)
  BY DEF SendFrame, Taken
<1> QED
  BY <1>1, AddKeepsIInv

(* A step that at most refills the bucket and moves no byte keeps all but  *)
(* what concerns the waiter.                                               *)
LEMMA TakeKeepsTheRest ==
    ASSUME IInv, bucket' = Taken, UNCHANGED <<meter, now, moved, billed, since>>
    PROVE  /\ ValveAssumption' /\ Bounded' /\ Billed' /\ RateIsKept'
           /\ meter' \in Nat /\ now' \in Nat /\ moved' \in Nat
           /\ billed' \in Nat /\ since' \in [now : Nat, moved : Nat]
           /\ bucket'.rate = bucket.rate
<1>1. CASE ~HasRate
  BY <1>1 DEF Taken, IInv, ValveAssumption, Bounded, Billed, RateIsKept, Typed,
              HasRate
<1>2. CASE HasRate
  <2> DEFINE b == Refill(bucket)
  <2>1. /\ b \in [rate : Nat, capacity : Nat, tokens : Int, last_refill : Nat]
        /\ b.rate = bucket.rate /\ b.capacity = bucket.capacity
        /\ b.last_refill = now /\ -b.capacity <= b.tokens
        /\ b.tokens <= b.capacity
        /\ MaxBytes <= bucket.rate =>
             (moved - since.moved) * VALVE_MILLI + b.tokens
               <= b.capacity + b.rate * (now - since.now)
    BY <1>2, RefillIsSound DEF IInv
  <2>2. bucket' = b
    BY <1>2 DEF Taken
  <2> HIDE DEF b
  <2>3. Bounded'
    BY <2>1, <2>2 DEF Bounded, IInv, Typed, ValveAssumption
  <2>4. RateIsKept'
    BY <2>1, <2>2 DEF RateIsKept, HasRate
  <2> QED
    BY <2>1, <2>2, <2>3, <2>4 DEF IInv, Billed, Typed, ValveAssumption
<1> QED
  BY <1>1, <1>2

(* A refused read or write only brings the bucket up to date. *)
LEMMA RefuseKeepsIInv == ASSUME IInv, Refuse PROVE IInv'
<1>1. /\ bucket' = Taken /\ UNCHANGED <<meter, now, moved, billed, since>>
      /\ waiter' = [state |-> "refused", at |-> 0, undisturbed |-> TRUE]
  BY DEF Refuse, Taken
<1>2. ArmedIsEnough'
  BY <1>1 DEF ArmedIsEnough
<1> QED
  BY <1>1, <1>2, TakeKeepsTheRest DEF IInv, Typed

(* bucket_delay_ms rounds up: when the delay is over, a byte has accrued;  *)
(* and it is positive and at most two seconds, for the debt is bounded.    *)
LEMMA DelayIsRight ==
    ASSUME IInv, HasRate
    PROVE  LET b == Refill(bucket)
           IN /\ Delay(b) \in 1..2 * VALVE_MILLI
              /\ \/ b.tokens >= VALVE_MILLI
                 \/ b.tokens + b.rate * Delay(b) >= VALVE_MILLI
<1> DEFINE b == Refill(bucket)
           M == VALVE_MILLI
           r == bucket.rate
           need == M - b.tokens
           q == (need + r - 1) \div r
<1>1. /\ b.rate = r /\ b.capacity = r * M /\ b.tokens \in Int
      /\ -b.capacity <= b.tokens /\ r \in Nat \ {0} /\ M \in Nat \ {0}
  BY RefillIsSound DEF IInv, Bounded, HasRate, ValveAssumption
<1>2. Delay(b) = IF need <= 0 THEN 1 ELSE Max({1, q})
  BY <1>1 DEF Delay
<1> HIDE DEF b
<1>3. q \in Int /\ r * q <= need + r - 1 /\ need + r - 1 < r * q + r
  <2>1. need + r - 1 \in Int
    BY <1>1
  <2> HIDE DEF need
  <2> QED
    BY Zenon, <1>1, <2>1, Division
<1> HIDE DEF q
<1>4. need > 0 => r * q >= need /\ q >= 1
  <2> SUFFICES ASSUME need > 0 PROVE r * q >= need /\ q >= 1
    OBVIOUS
  <2>1. r * q >= need
    BY <1>1, <1>3
  <2>2. q <= 0 => r * q <= r * 0
    BY <1>1, <1>3, Monotone
  <2> QED
    BY <1>1, <1>3, <2>1, <2>2
<1>5. q <= 2 * M
  <2> SUFFICES ASSUME q >= 2 * M + 1 PROVE FALSE
    BY <1>1, <1>3
  <2>1. r * (2 * M + 1) <= r * q
    BY <1>1, <1>3, Monotone
  <2>2. r * (2 * M + 1) = r * M + r * M + r
    BY <1>1
  <2>3. M <= r * M
    BY <1>1, Monotone
  <2> QED
    BY <1>1, <1>3, <2>1, <2>2, <2>3
<1>6. need > 0 => Max({1, q}) = q
  BY <1>3, <1>4, MaxOfTwo
<1> QED
  BY <1>1, <1>2, <1>3, <1>4, <1>5, <1>6 DEF b

(* The rate timer is armed for when the bucket will have a byte again. *)
LEMMA ArmKeepsIInv == ASSUME IInv, Arm PROVE IInv'
<1>1. /\ bucket' = Taken /\ UNCHANGED <<meter, now, moved, billed, since>>
      /\ waiter' = [state |-> "armed", undisturbed |-> TRUE,
                    at |-> now + (IF HasRate THEN Delay(Refill(bucket)) ELSE 0)]
  BY DEF Arm, Taken
<1>2. now \in Nat /\ VALVE_MILLI \in Nat
  BY DEF IInv, Typed, ValveAssumption
<1>3. waiter' \in [state : {"none", "refused", "armed"}, at : Nat,
                   undisturbed : BOOLEAN]
  BY <1>1, <1>2, DelayIsRight
<1>4. ArmedIsEnough'
  <2> SUFFICES ASSUME HasRate'
               PROVE  \/ bucket'.tokens >= VALVE_MILLI
                      \/ /\ waiter'.at >= bucket'.last_refill
                         /\ bucket'.tokens + bucket'.rate
                              * (waiter'.at - bucket'.last_refill) >= VALVE_MILLI
    BY DEF ArmedIsEnough
  <2>1. HasRate
    BY <1>1, TakeKeepsTheRest DEF HasRate
  <2> DEFINE b == Refill(bucket)
  <2>2. bucket' = b /\ waiter'.at = now + Delay(b)
    BY <1>1, <2>1 DEF Taken
  <2>3. b.last_refill = now
    BY RefillIsSound DEF IInv
  <2>4. /\ Delay(b) \in 1..2 * VALVE_MILLI
        /\ \/ b.tokens >= VALVE_MILLI
           \/ b.tokens + b.rate * Delay(b) >= VALVE_MILLI
    BY <2>1, DelayIsRight
  <2> HIDE DEF b
  <2> QED
    BY <1>2, <2>2, <2>3, <2>4
<1> QED
  BY <1>1, <1>3, <1>4, TakeKeepsTheRest DEF IInv, Typed

(* Resuming after the wait only brings the bucket up to date. *)
LEMMA ResumeKeepsIInv == ASSUME IInv, Resume PROVE IInv'
<1>1. /\ bucket' = Taken /\ UNCHANGED <<meter, now, moved, billed, since>>
      /\ waiter' = [state |-> "none", at |-> 0, undisturbed |-> TRUE]
  BY DEF Resume, Taken, NoWaiter
<1>2. ArmedIsEnough'
  BY <1>1 DEF ArmedIsEnough
<1> QED
  BY <1>1, <1>2, TakeKeepsTheRest DEF IInv, Typed

(* Taking the usage zeroes the counters it reports. *)
LEMMA NullifyKeepsIInv == ASSUME IInv, Nullify PROVE IInv'
<1>1. Typed' /\ Billed'
  BY DEF IInv, Nullify, Typed, Billed
<1> QED
  BY <1>1 DEF IInv, Nullify, ValveAssumption, Bounded, RateIsKept, ArmedIsEnough,
              HasRate

(* cloak_valve_set_rates hands out a full bucket, so that a caller waiting *)
(* for the old one finds a byte.                                           *)
LEMMA SetRatesKeepsIInv ==
    ASSUME IInv, NEW r \in Rates, SetRates(r)
    PROVE  IInv'
<1> DEFINE M == VALVE_MILLI
<1>1. r \in Nat /\ M \in Nat \ {0} /\ now \in Nat /\ moved \in Nat
  BY DEF IInv, ValveAssumption, Typed
<1>2. /\ bucket' = [rate |-> r, capacity |-> r * M, tokens |-> r * M,
                    last_refill |-> now]
      /\ since' = [now |-> now, moved |-> moved]
      /\ UNCHANGED <<meter, now, waiter, moved, billed>>
  BY DEF SetRates, BucketSetRate
<1>3. r * M \in Nat /\ (r # 0 => r * M >= M)
  BY <1>1, Monotone
<1>4. Bounded'
  BY <1>1, <1>2, <1>3 DEF Bounded
<1>5. Typed' /\ Billed'
  BY <1>1, <1>2 DEF IInv, Typed, Billed
<1>6. RateIsKept'
  <2>1. (moved' - since'.moved) * M = 0 /\ r * (bucket'.last_refill - since'.now) = 0
    BY <1>1, <1>2
  <2> QED
    BY <1>2, <1>3, <2>1 DEF RateIsKept
<1>7. ArmedIsEnough'
  BY <1>2, <1>3 DEF ArmedIsEnough, HasRate
<1> QED
  BY <1>4, <1>5, <1>6, <1>7 DEF IInv, ValveAssumption

(* Time alone changes what a refill will add, and nothing else. *)
LEMMA TickKeepsIInv == ASSUME IInv, NEW d \in Nat, Tick(d) PROVE IInv'
<1>1. now' = now + d /\ UNCHANGED <<bucket, meter, waiter, moved, billed, since>>
  BY DEF Tick
<1>2. Typed' /\ Bounded' /\ Billed'
  BY <1>1 DEF IInv, Typed, Bounded, Billed
<1> QED
  BY <1>1, <1>2 DEF IInv, ValveAssumption, RateIsKept, ArmedIsEnough, HasRate

(* A new valve starts full and owes nothing. *)
LEMMA InitIInv == ValveAssumption /\ Init => IInv
<1> SUFFICES ASSUME ValveAssumption, Init PROVE IInv
  OBVIOUS
<1> DEFINE M == VALVE_MILLI
<1>1. PICK r \in Rates : bucket = BucketSetRate(r)
  BY DEF Init
<1>2. /\ r \in Nat /\ M \in Nat \ {0} /\ now = 0
      /\ bucket = [rate |-> r, capacity |-> r * M, tokens |-> r * M,
                   last_refill |-> 0]
      /\ meter = 0 /\ moved = 0 /\ billed = 0
      /\ waiter = [state |-> "none", at |-> 0, undisturbed |-> TRUE]
      /\ since = [now |-> 0, moved |-> 0]
  BY <1>1 DEF Init, BucketSetRate, ValveAssumption, NoWaiter
<1>3. r * M \in Nat
  BY <1>2
<1>4. Bounded
  BY <1>2, <1>3 DEF Bounded
<1>5. Typed /\ Billed /\ ArmedIsEnough
  BY <1>2 DEF Typed, Billed, ArmedIsEnough
<1>6. RateIsKept
  BY <1>2, <1>3 DEF RateIsKept
<1> QED
  BY <1>4, <1>5, <1>6 DEF IInv

(* Every step of the valve keeps the inductive invariant. *)
LEMMA NextKeepsIInv == IInv /\ [Next]_vars => IInv'
<1> SUFFICES ASSUME IInv, [Next]_vars PROVE IInv'
  OBVIOUS
<1>1. ASSUME NEW n \in 1..MaxBytes, Read(n) \/ SendFrame(n) PROVE IInv'
  BY <1>1, ReadKeepsIInv, SendFrameKeepsIInv
<1>2. CASE Refuse \/ Arm \/ Resume \/ Nullify
  BY <1>2, RefuseKeepsIInv, ArmKeepsIInv, ResumeKeepsIInv, NullifyKeepsIInv
<1>3. ASSUME NEW r \in Rates, SetRates(r) PROVE IInv'
  BY <1>3, SetRatesKeepsIInv
<1>4. ASSUME NEW d \in 1..VALVE_FULL_AFTER_MS, Tick(d) PROVE IInv'
  <2>1. d \in Nat
    BY DEF VALVE_FULL_AFTER_MS, IInv, ValveAssumption
  <2> QED
    BY <1>4, <2>1, TickKeepsIInv
<1>5. CASE UNCHANGED vars
  BY <1>5 DEF vars, IInv, ValveAssumption, Bounded, Typed, Billed, RateIsKept,
              ArmedIsEnough, HasRate
<1> QED
  BY <1>1, <1>2, <1>3, <1>4, <1>5 DEF Next

-----------------------------------------------------------------------------
(* Every byte is billed once and the rate is kept, whatever the rates, the *)
(* transfers and the drains (bucket_refill, bucket_spend,                  *)
(* cloak_valve_nullify and cloak_valve_set_rates).                         *)
THEOREM PacedAndBilled ==
    ValveAssumption /\ Spec => [](BilledOnce /\ RateIsKept)
<1>1. IInv => BilledOnce /\ RateIsKept
  BY DEF IInv, Bounded, Typed, Billed, BilledOnce, TypeOK
<1> QED
  BY InitIInv, NextKeepsIInv, <1>1, PTL DEF Spec

(* A caller that waited as long as bucket_delay_ms said finds a byte, and  *)
(* is never told to wait for nothing or for more than two seconds.         *)
THEOREM WaitsAreRight == ValveAssumption /\ Spec => [][WaitIsRight]_vars
<1>1. IInv /\ [Next]_vars => [WaitIsRight]_vars
  <2> SUFFICES ASSUME IInv PROVE WaitIsRight
    OBVIOUS
  <2>1. WaitsEnough
    <3> SUFFICES ASSUME Resume, waiter.undisturbed, HasRate
                 PROVE  Available(bucket') > 0
      BY DEF WaitsEnough, HasRate
    <3> DEFINE b == Refill(bucket)
               M == VALVE_MILLI
               r == bucket.rate
    <3>1. bucket' = b /\ now >= waiter.at /\ waiter.state = "armed"
      BY DEF Resume
    <3>2. /\ b.tokens \in Int /\ bucket.tokens <= b.tokens
          /\ \/ b.tokens = bucket.capacity
             \/ b.tokens = bucket.tokens + r * (now - bucket.last_refill)
      BY RefillFacts DEF IInv, Typed
    <3>3. /\ r \in Nat \ {0} /\ M \in Nat /\ bucket.capacity = r * M
          /\ bucket.tokens \in Int /\ now \in Nat /\ bucket.last_refill \in Nat
          /\ waiter.at \in Nat
      BY DEF IInv, Bounded, Typed, HasRate, ValveAssumption
    <3> HIDE DEF b
    <3>4. bucket.capacity >= M
      BY <3>3, Monotone
    <3>5. \/ bucket.tokens >= M
          \/ bucket.tokens + r * (waiter.at - bucket.last_refill) >= M
      BY <3>1 DEF IInv, ArmedIsEnough
    <3>6. r * (waiter.at - bucket.last_refill) <= r * (now - bucket.last_refill)
      BY <3>1, <3>3, Monotone
    <3>7. b.tokens >= M
      BY <3>2, <3>3, <3>4, <3>5, <3>6
    <3> QED
      BY <3>1, <3>2, <3>7, AvailableIsAByte DEF IInv
  <2>2. PausesShortly
    <3> SUFFICES ASSUME Arm, HasRate
                 PROVE  waiter'.at \in now + 1..now + 2 * VALVE_MILLI
      BY DEF PausesShortly
    <3>1. waiter'.at = now + Delay(Refill(bucket))
      BY DEF Arm
    <3> QED
      BY <3>1, DelayIsRight DEF IInv, Typed, ValveAssumption
  <2> QED
    BY <2>1, <2>2 DEF WaitIsRight
<1> QED
  BY InitIInv, NextKeepsIInv, <1>1, PTL DEF Spec
=============================================================================
