------------------------ MODULE ExchangeRateLimiter_proofs ------------------------
(***************************************************************************)
(* Proofs about ExchangeRateLimiter, for every number of callers, every     *)
(* limit, window and table size, and every clock bound.                     *)
(***************************************************************************)
EXTENDS ExchangeRateLimiter, FiniteSetTheorems, TLAPS

\* The table is finite, though the set of callers need not be.
Inv == TypeOK /\ MemoryBounded /\ IsFiniteSet(DOMAIN attempts)

\* An element of a sequence.
LEMMA SeqElement ==
  ASSUME NEW S, NEW q \in Seq(S), NEW i \in 1..Len(q)
  PROVE  q[i] \in S
  OBVIOUS

\* Expired counts a part of the bucket.
LEMMA ExpiredPart ==
  ASSUME NEW S, NEW q \in Seq(S)
  PROVE  Expired(q) \in 0..Len(q)
  <1> DEFINE part == {i \in 1..Len(q) : \A h \in 1..i : q[h] <= cutoff}
  <1>1. Len(q) \in Nat
    OBVIOUS
  <1>2. IsFiniteSet(1..Len(q)) /\ Cardinality(1..Len(q)) = Len(q)
    BY <1>1, FS_Interval
  <1>3. Cardinality(part) \in Nat /\ Cardinality(part) <= Cardinality(1..Len(q))
    BY <1>2, FS_Subset, FS_CardinalityType
  <1> QED
    BY <1>1, <1>2, <1>3 DEF Expired

\* Dropping expired attempts never lengthens a bucket.
LEMMA LivePart ==
  ASSUME NEW S, NEW q \in Seq(S)
  PROVE  Live(q) \in Seq(S) /\ Len(Live(q)) <= Len(q)
  <1> DEFINE n == Expired(q)
  <1>1. n \in 0..Len(q)
    BY ExpiredPart
  <1>2. Live(q) = SubSeq(q, n + 1, Len(q))
    BY DEF Live
  <1> HIDE DEF n
  <1> QED
    BY <1>1, <1>2

\* The sweep removes buckets but never the shared one.
LEMMA SweptPart ==
  ASSUME NEW key, Inv
  PROVE  /\ Swept(key) \subseteq DOMAIN attempts /\ Overflow \in Swept(key)
         /\ IsFiniteSet(Swept(key)) /\ Cardinality(Swept(key)) \in Nat
         /\ Cardinality(Swept(key)) <= max_keys
  <1>1. Swept(key) \subseteq DOMAIN attempts /\ Overflow \in Swept(key)
    BY DEF Swept, StaleKeys, Inv, TypeOK
  <1>2. IsFiniteSet(Swept(key)) /\ Cardinality(Swept(key)) <= Cardinality(DOMAIN attempts)
    BY <1>1, FS_Subset DEF Inv
  <1>3. Cardinality(Swept(key)) \in Nat /\ Cardinality(DOMAIN attempts) \in Nat
    BY <1>2, FS_CardinalityType DEF Inv
  <1> QED
    BY <1>1, <1>2, <1>3, LimiterAssumption DEF Inv, MemoryBounded

\* A caller's bucket is stored already, is the shared one, or there is room for it.
LEMMA BucketFits ==
  ASSUME NEW key \in Keys, Inv
  PROVE  /\ IsFiniteSet(Swept(key) \cup {Bucket(key)})
         /\ Cardinality(Swept(key) \cup {Bucket(key)}) <= max_keys
  <1> DEFINE kept == Swept(key)
             bucket == Bucket(key)
  <1>1. /\ kept \subseteq DOMAIN attempts /\ Overflow \in kept
        /\ IsFiniteSet(kept) /\ Cardinality(kept) \in Nat /\ Cardinality(kept) <= max_keys
    BY SweptPart
  <1>2. CASE bucket \in kept
    <2>1. kept \cup {bucket} = kept
      BY <1>2
    <2> QED
      BY <1>1, <2>1
  <1>3. CASE bucket \notin kept
    <2>1. key \notin DOMAIN attempts /\ ~(Cardinality(kept) >= max_keys)
      BY <1>1, <1>3 DEF Bucket, Swept
    <2>2. /\ IsFiniteSet(kept \cup {bucket})
          /\ Cardinality(kept \cup {bucket}) = Cardinality(kept) + 1
      BY <1>1, <1>3, FS_AddElement
    <2> QED
      BY <1>1, <2>1, <2>2, LimiterAssumption
  <1> QED
    BY <1>2, <1>3

\* One call keeps the invariant.
LEMMA CheckInv ==
  ASSUME NEW key \in Keys, Inv, Check(key)
  PROVE  Inv'
  <1> DEFINE bucket == Bucket(key)
             live == IF bucket \in Swept(key) THEN Live(attempts[bucket]) ELSE << >>
             allowed == Len(live) < max_attempts
             left == IF allowed THEN Append(live, now) ELSE live
  <1>0. /\ now \in 0..MaxNow /\ now' = now /\ max_attempts \in Nat \ {0}
        /\ bucket \in Keys \cup {Overflow}
    BY LimiterAssumption DEF Inv, TypeOK, Check, Bucket
  <1>1. /\ attempts' = [k \in Swept(key) \cup {bucket} |-> IF k # bucket THEN attempts[k] ELSE left]
        /\ granted' = IF allowed THEN [granted EXCEPT ![key] = Append(@, now)] ELSE granted
        /\ reply' = IF allowed THEN NoReply
                    ELSE [allowed |-> FALSE, retry_after |-> RetryAfter(live[1]), oldest |-> live[1]]
    BY DEF Check
  <1>2. live \in Seq(0..MaxNow) /\ Len(live) <= max_attempts
    <2>1. CASE bucket \in Swept(key)
      <3>1. attempts[bucket] \in Seq(0..MaxNow) /\ Len(attempts[bucket]) <= max_attempts
        BY <2>1, SweptPart DEF Inv, TypeOK, MemoryBounded
      <3>2. Live(attempts[bucket]) \in Seq(0..MaxNow)
            /\ Len(Live(attempts[bucket])) <= Len(attempts[bucket])
        BY <3>1, LivePart
      <3> HIDE DEF bucket
      <3>3. Len(Live(attempts[bucket])) \in Nat /\ Len(attempts[bucket]) \in Nat
        BY <3>1, <3>2
      <3> QED
        BY <1>0, <2>1, <3>1, <3>2, <3>3
    <2>2. CASE bucket \notin Swept(key)
      BY <1>0, <2>2
    <2> QED
      BY <2>1, <2>2
  <1> HIDE DEF live, bucket
  <1>3. left \in Seq(0..MaxNow) /\ Len(left) <= max_attempts
    <2>1. Len(live) \in Nat
      BY <1>2
    <2>2. Append(live, now) \in Seq(0..MaxNow) /\ Len(Append(live, now)) = Len(live) + 1
      BY <1>0, <1>2
    <2>3. CASE allowed
      <3>1. left = Append(live, now)
        BY <2>3
      <3>2. Len(live) + 1 <= max_attempts
        BY <1>0, <2>1, <2>3
      <3> QED
        BY <2>2, <3>1, <3>2
    <2>4. CASE ~allowed
      BY <1>2, <2>4
    <2> QED
      BY <2>3, <2>4
  <1>4. granted' \in [Keys -> Seq(0..MaxNow)]
    <2>1. granted[key] \in Seq(0..MaxNow)
      BY DEF Inv, TypeOK
    <2>2. Append(granted[key], now) \in Seq(0..MaxNow)
      BY <1>0, <2>1
    <2> QED
      BY <1>1, <2>2 DEF Inv, TypeOK
  <1>5. reply' \in [allowed : BOOLEAN, retry_after : Nat, oldest : Nat]
    <2>1. CASE allowed
      BY <1>1, <2>1 DEF NoReply
    <2>2. CASE ~allowed
      <3>1. live[1] \in Nat
        <4>1. Len(live) \in Nat
          BY <1>2
        <4>2. 1 \in 1..Len(live)
          BY <1>0, <2>2, <4>1
        <4>3. live[1] \in 0..MaxNow
          BY <1>2, <4>2, SeqElement
        <4> QED
          BY <4>3
      <3>2. RetryAfter(live[1]) \in Nat
        <4> DEFINE n == (Window - (now - live[1])) \div TicksPerSecond
        <4>1. Window - (now - live[1]) \in Int /\ TicksPerSecond \in Nat \ {0}
          BY <1>0, <3>1, LimiterAssumption DEF Window
        <4>2. n \in Int
          BY <4>1
        <4>3. RetryAfter(live[1]) = IF n < 1 THEN 1 ELSE n
          BY DEF RetryAfter
        <4> QED
          BY <4>2, <4>3
      <3> QED
        BY <1>1, <2>2, <3>1, <3>2
    <2> QED
      BY <2>1, <2>2
  <1> HIDE DEF left, allowed
  <1>6. DOMAIN attempts' = Swept(key) \cup {bucket}
    BY <1>1
  <1>7. \A k \in DOMAIN attempts' :
          attempts'[k] \in Seq(0..MaxNow) /\ Len(attempts'[k]) <= max_attempts
    <2> SUFFICES ASSUME NEW k \in Swept(key) \cup {bucket}
                 PROVE  attempts'[k] \in Seq(0..MaxNow) /\ Len(attempts'[k]) <= max_attempts
      BY <1>6
    <2>1. CASE k = bucket
      BY <1>1, <1>3, <2>1
    <2>2. CASE k # bucket
      <3>1. k \in DOMAIN attempts /\ attempts'[k] = attempts[k]
        BY <1>1, <2>2, SweptPart
      <3> QED
        BY <3>1 DEF Inv, TypeOK, MemoryBounded
    <2> QED
      BY <2>1, <2>2
  <1>8. IsFiniteSet(DOMAIN attempts') /\ Cardinality(DOMAIN attempts') <= max_keys
    BY <1>6, BucketFits DEF bucket
  <1>9. DOMAIN attempts' \subseteq Keys \cup {Overflow} /\ Overflow \in DOMAIN attempts'
    BY <1>0, <1>6, SweptPart DEF Inv, TypeOK
  <1> QED
    BY <1>0, <1>4, <1>5, <1>7, <1>8, <1>9 DEF Inv, TypeOK, MemoryBounded

\* Every step keeps the invariant.
LEMMA NextInv == Inv /\ [Next]_vars => Inv'
  <1> SUFFICES ASSUME Inv, [Next]_vars PROVE Inv'
    OBVIOUS
  <1>1. CASE Tick
    <2>1. now' \in 0..MaxNow
      BY <1>1, LimiterAssumption DEF Tick, Inv, TypeOK
    <2> QED
      BY <1>1, <2>1 DEF Tick, Inv, TypeOK, MemoryBounded, NoReply
  <1>2. ASSUME NEW k \in Keys, Check(k) PROVE Inv'
    BY <1>2, CheckInv
  <1>3. CASE UNCHANGED vars
    BY <1>3 DEF vars, Inv, TypeOK, MemoryBounded
  <1> QED
    BY <1>1, <1>2, <1>3 DEF Next

\* The table starts with the shared bucket alone.
LEMMA InitInv == Init => Inv
  <1> SUFFICES ASSUME Init PROVE Inv
    OBVIOUS
  <1>1. DOMAIN attempts = {Overflow} /\ attempts[Overflow] = << >>
    BY DEF Init
  <1>2. IsFiniteSet({Overflow}) /\ Cardinality({Overflow}) = 1
    BY FS_Singleton
  <1>3. << >> \in Seq(0..MaxNow) /\ Len(<< >>) = 0
    OBVIOUS
  <1> QED
    BY <1>1, <1>2, <1>3, LimiterAssumption DEF Init, Inv, TypeOK, MemoryBounded, NoReply

\* The limiter's memory is bounded for every number of callers.
THEOREM LimiterMemory == Spec => []MemoryBounded
  <1>1. Inv => MemoryBounded
    BY DEF Inv
  <1> QED
    BY <1>1, InitInv, NextInv, PTL DEF Spec

\* The buckets, the history and the replies keep their types.
THEOREM LimiterTypes == Spec => []TypeOK
  <1>1. Inv => TypeOK
    BY DEF Inv
  <1> QED
    BY <1>1, InitInv, NextInv, PTL DEF Spec

-----------------------------------------------------------------------------
(* The window *)

\* The loop pops exactly the expired attempts at the head.
LEMMA ExpiredHead ==
  ASSUME NEW q \in Seq(Nat), NEW n, n = Expired(q), cutoff \in Int
  PROVE  /\ n \in 0..Len(q)
         /\ \A i \in 1..n : q[i] <= cutoff
         /\ n < Len(q) => q[n + 1] > cutoff
  <1> DEFINE part == {i \in 1..Len(q) : \A h \in 1..i : q[h] <= cutoff}
  <1>0. Len(q) \in Nat /\ \A i \in 1..Len(q) : q[i] \in Nat
    OBVIOUS
  <1>1. n \in 0..Len(q) /\ n = Cardinality(part)
    BY ExpiredPart DEF Expired
  <1>2. IsFiniteSet(part) /\ part \subseteq 1..Len(q)
    <2>1. IsFiniteSet(1..Len(q)) /\ part \in SUBSET (1..Len(q))
      BY <1>0, FS_Interval
    <2> QED
      BY <2>1, FS_Subset
  <1>3. \A i \in part : i <= n
    <2> SUFFICES ASSUME NEW i \in part PROVE i <= n
      OBVIOUS
    <2>1. i \in 1..Len(q)
      OBVIOUS
    <2>2. 1..i \subseteq part
      BY <1>0, <2>1
    <2>3. Cardinality(1..i) = i
      BY <2>1, FS_Interval
    <2>4. Cardinality(1..i) <= Cardinality(part)
      BY <1>2, <2>2, FS_Subset
    <2> QED
      BY <1>1, <2>3, <2>4
  <1>4. part = 1..n
    <2>1. part \subseteq 1..n
      BY <1>1, <1>2, <1>3
    <2>2. IsFiniteSet(1..n) /\ Cardinality(1..n) = n
      BY <1>1, FS_Interval
    <2> QED
      BY <1>1, <2>1, <2>2, FS_Subset
  <1>5. \A i \in 1..n : q[i] <= cutoff
    BY <1>1, <1>4
  <1>6. ASSUME n < Len(q) PROVE q[n + 1] > cutoff
    <2>1. n + 1 \in 1..Len(q) /\ n + 1 \notin part
      <3>1. n + 1 \in 1..Len(q) /\ n + 1 \notin 1..n
        BY <1>0, <1>1, <1>6
      <3> QED
        BY <1>4, <3>1
    <2>2. PICK h \in 1..(n + 1) : ~(q[h] <= cutoff)
      BY <2>1
    <2>3. h = n + 1
      BY <1>1, <1>5, <2>2
    <2> QED
      BY <1>0, <2>1, <2>2, <2>3
  <1> QED
    BY <1>1, <1>5, <1>6

\* What is left is the bucket from its first attempt in the window on.
LEMMA LiveTail ==
  ASSUME NEW q \in Seq(Nat), NEW n, n = Expired(q)
  PROVE  /\ n \in 0..Len(q) /\ Live(q) \in Seq(Nat) /\ Len(Live(q)) = Len(q) - n
         /\ \A i \in 1..Len(Live(q)) : Live(q)[i] = q[n + i]
  <1>1. n \in 0..Len(q)
    BY ExpiredPart
  <1>2. Live(q) = SubSeq(q, n + 1, Len(q))
    BY DEF Live
  <1>3. Len(q) \in Nat /\ n \in Nat /\ n <= Len(q)
    BY <1>1
  <1>4. Len(SubSeq(q, n + 1, Len(q))) = Len(q) - n
    BY <1>3
  <1>5. \A i \in 1..(Len(q) - n) : SubSeq(q, n + 1, Len(q))[i] = q[n + i]
    BY <1>3
  <1>6. SubSeq(q, n + 1, Len(q)) \in Seq(Nat)
    BY <1>3
  <1> QED
    BY <1>1, <1>2, <1>4, <1>5, <1>6

\* The clock does not run backwards: a bucket's times are in order and none is ahead of it.
Ordered(q) == /\ \A i \in 1..Len(q) : q[i] <= now
              /\ \A i, j \in 1..Len(q) : i <= j => q[i] <= q[j]

\* A refusal counted an attempt that is still in the window.
Answered ==
  ~reply.allowed => /\ reply.oldest <= now /\ reply.oldest > cutoff
                    /\ reply.retry_after = RetryAfter(reply.oldest)

ClockInv == Answered /\ \A k \in DOMAIN attempts : Ordered(attempts[k])

LEMMA ClockType ==
  ASSUME Inv
  PROVE  /\ now \in Nat /\ Window \in Nat \ {0} /\ cutoff \in Int /\ cutoff < now
         /\ \A k \in DOMAIN attempts : attempts[k] \in Seq(Nat)
         /\ \A k \in Keys : granted[k] \in Seq(Nat)
  <1>1. now \in Nat
    BY DEF Inv, TypeOK
  <1>2. Window \in Nat \ {0}
    BY LimiterAssumption DEF Window
  <1>3. \A q \in Seq(0..MaxNow) : q \in Seq(Nat)
    BY LimiterAssumption
  <1> QED
    BY <1>1, <1>2, <1>3 DEF cutoff, Inv, TypeOK

\* The bucket a call reads, and what it leaves of it.
LiveOf(key) == IF Bucket(key) \in Swept(key) THEN Live(attempts[Bucket(key)]) ELSE << >>

LEMMA LiveOrdered ==
  ASSUME Inv, ClockInv, NEW key \in Keys
  PROVE  /\ LiveOf(key) \in Seq(Nat) /\ Ordered(LiveOf(key))
         /\ \A i \in 1..Len(LiveOf(key)) : LiveOf(key)[1] > cutoff
  <1>1. CASE Bucket(key) \in Swept(key)
    <2>1. PICK q : q = attempts[Bucket(key)]
      OBVIOUS
    <2>2. q \in Seq(Nat) /\ Ordered(q) /\ cutoff \in Int /\ now \in Nat
      BY <1>1, <2>1, SweptPart, ClockType DEF ClockInv
    <2>3. PICK n : n = Expired(q)
      OBVIOUS
    <2>4. /\ n \in 0..Len(q) /\ Live(q) \in Seq(Nat) /\ Len(Live(q)) = Len(q) - n
          /\ \A i \in 1..Len(Live(q)) : Live(q)[i] = q[n + i]
      BY <2>2, <2>3, LiveTail
    <2>5. n < Len(q) => q[n + 1] > cutoff
      BY <2>2, <2>3, ExpiredHead
    <2>6. \A i \in 1..Len(q) : q[i] \in Nat
      BY <2>2
    <2>7. Ordered(Live(q))
      <3>0. Len(q) \in Nat
        BY <2>2
      <3>1. \A i \in 1..Len(Live(q)) : n + i \in 1..Len(q)
        BY <2>4, <3>0
      <3>2. ASSUME NEW i \in 1..Len(Live(q)) PROVE Live(q)[i] <= now
        BY <2>2, <2>4, <3>1 DEF Ordered
      <3>3. ASSUME NEW i \in 1..Len(Live(q)), NEW j \in 1..Len(Live(q)), i <= j
            PROVE  Live(q)[i] <= Live(q)[j]
        <4>1. n + i <= n + j
          BY <2>4, <3>0, <3>3
        <4>2. q[n + i] <= q[n + j]
          BY <2>2, <3>1, <4>1 DEF Ordered
        <4> QED
          BY <2>4, <4>2
      <3> QED
        BY <3>2, <3>3 DEF Ordered
    <2>8. \A i \in 1..Len(Live(q)) : Live(q)[1] > cutoff
      <3> SUFFICES ASSUME NEW i \in 1..Len(Live(q)) PROVE Live(q)[1] > cutoff
        OBVIOUS
      <3>1. n < Len(q) /\ n + 1 \in Nat /\ 1 \in 1..Len(Live(q))
        BY <2>2, <2>4
      <3>2. Live(q)[1] = q[n + 1]
        BY <2>4, <3>1
      <3> QED
        BY <2>5, <3>1, <3>2
    <2> QED
      BY <1>1, <2>1, <2>4, <2>7, <2>8 DEF LiveOf
  <1>2. CASE Bucket(key) \notin Swept(key)
    BY <1>2 DEF LiveOf, Ordered
  <1> QED
    BY <1>1, <1>2

LEMMA CheckClock ==
  ASSUME Inv, ClockInv, NEW key \in Keys, Check(key)
  PROVE  ClockInv'
  <1>0. /\ LiveOf(key) \in Seq(Nat) /\ Ordered(LiveOf(key))
        /\ \A i \in 1..Len(LiveOf(key)) : LiveOf(key)[1] > cutoff
        /\ now \in Nat /\ now' = now /\ Swept(key) \subseteq DOMAIN attempts
    BY LiveOrdered, ClockType, SweptPart DEF Check
  <1> DEFINE bucket == Bucket(key)
             allowed == Len(LiveOf(key)) < max_attempts
             left == IF allowed THEN Append(LiveOf(key), now) ELSE LiveOf(key)
  <1>1. /\ attempts' = [k \in Swept(key) \cup {bucket} |-> IF k # bucket THEN attempts[k] ELSE left]
        /\ reply' = IF allowed THEN NoReply
                    ELSE [allowed |-> FALSE, retry_after |-> RetryAfter(LiveOf(key)[1]),
                          oldest |-> LiveOf(key)[1]]
    BY DEF Check, LiveOf
  <1>2. Ordered(left)
    <2>1. CASE allowed
      BY <1>0, <2>1 DEF Ordered
    <2>2. CASE ~allowed
      BY <1>0, <2>2
    <2> QED
      BY <2>1, <2>2
  <1>3. \A k \in DOMAIN attempts' : Ordered(attempts'[k])
    <2> HIDE DEF left, bucket
    <2> QED
      BY <1>0, <1>1, <1>2 DEF ClockInv
  <1>4. (\A k \in DOMAIN attempts : Ordered(attempts[k]))'
    BY <1>0, <1>3 DEF Ordered
  <1>5. Answered'
    <2>1. CASE allowed
      BY <1>1, <2>1 DEF Answered, NoReply
    <2>2. CASE ~allowed
      <3>1. Len(LiveOf(key)) \in Nat /\ 1 \in 1..Len(LiveOf(key))
        BY <1>0, <2>2, LimiterAssumption
      <3>2. LiveOf(key)[1] <= now /\ LiveOf(key)[1] > cutoff
        BY <1>0, <3>1 DEF Ordered
      <3>3. /\ reply'.oldest = LiveOf(key)[1]
            /\ reply'.retry_after = RetryAfter(LiveOf(key)[1])
        BY <1>1, <2>2
      <3> QED
        BY <1>0, <3>2, <3>3 DEF Answered, RetryAfter, cutoff
    <2> QED
      BY <2>1, <2>2
  <1> QED
    BY <1>4, <1>5 DEF ClockInv

LEMMA NextClock == Inv /\ ClockInv /\ [Next]_vars => ClockInv'
  <1> SUFFICES ASSUME Inv, ClockInv, [Next]_vars PROVE ClockInv'
    OBVIOUS
  <1>1. CASE Tick
    <2>1. now \in Nat /\ now' = now + 1 /\ attempts' = attempts
      BY <1>1, ClockType DEF Tick
    <2>2. Answered'
      BY <1>1 DEF Tick, Answered, NoReply
    <2>3. \A k \in DOMAIN attempts : \A i \in 1..Len(attempts[k]) : attempts[k][i] \in Nat
      BY ClockType
    <2>4. \A k \in DOMAIN attempts : Ordered(attempts[k])'
      <3> SUFFICES ASSUME NEW k \in DOMAIN attempts PROVE Ordered(attempts[k])'
        OBVIOUS
      <3>1. \A i \in 1..Len(attempts[k]) : attempts[k][i] \in Nat /\ attempts[k][i] <= now
        BY <2>3 DEF ClockInv, Ordered
      <3>2. \A i \in 1..Len(attempts[k]) : attempts[k][i] <= now + 1
        BY <2>1, <3>1
      <3> QED
        BY <2>1, <3>2 DEF ClockInv, Ordered
    <2> QED
      BY <2>1, <2>2, <2>4 DEF ClockInv
  <1>2. ASSUME NEW k \in Keys, Check(k) PROVE ClockInv'
    BY <1>2, CheckClock
  <1>3. CASE UNCHANGED vars
    BY <1>3 DEF vars, ClockInv, Answered, Ordered, cutoff, RetryAfter
  <1> QED
    BY <1>1, <1>2, <1>3 DEF Next

LEMMA InitClock == Init => ClockInv
  BY DEF Init, ClockInv, Answered, NoReply, Ordered

\* Truncated to seconds, at least one: the wait covers what is left of the window.
LEMMA WaitCovers ==
  ASSUME NEW left \in Nat, left > 0, left <= Window,
         NEW wait, wait = IF left \div TicksPerSecond < 1 THEN 1 ELSE left \div TicksPerSecond
  PROVE  wait \in 1..window_seconds /\ left <= (wait + 1) * TicksPerSecond
  <1> DEFINE t == TicksPerSecond
             s == left \div t
  <1>0. t \in Nat \ {0} /\ window_seconds \in Nat \ {0} /\ left <= window_seconds * t
    BY LimiterAssumption DEF Window
  <1>1. s \in Int /\ s * t <= left /\ left < (s + 1) * t
    BY <1>0
  <1> HIDE DEF s, t
  <1>2. s <= window_seconds
    BY <1>0, <1>1
  <1>3. (s + 1) * t <= (wait + 1) * t /\ wait \in 1..window_seconds
    BY <1>0, <1>1, <1>2 DEF s, t
  <1> QED
    BY <1>0, <1>1, <1>3 DEF t

\* A refused caller that waits retry_after and one second more is past the attempt that
\* blocked it, at any resolution of the clock.
THEOREM RetryAfterWaits == Spec => []RetryAfterSuffices
  <1>1. Inv /\ ClockInv => RetryAfterSuffices
    <2> SUFFICES ASSUME Inv, ClockInv, ~reply.allowed
                 PROVE  /\ reply.retry_after \in 1..window_seconds
                        /\ reply.oldest <= now + (reply.retry_after + 1) * TicksPerSecond - Window
      BY DEF RetryAfterSuffices
    <2> DEFINE left == Window - (now - reply.oldest)
    <2>1. /\ now \in Nat /\ Window \in Nat /\ reply.oldest \in Nat
          /\ reply.oldest <= now /\ reply.oldest > now - Window
      BY ClockType DEF ClockInv, Answered, cutoff, Inv, TypeOK
    <2>2. left \in Nat /\ left > 0 /\ left <= Window
      BY <2>1
    <2>3. reply.retry_after
            = IF left \div TicksPerSecond < 1 THEN 1 ELSE left \div TicksPerSecond
      BY DEF ClockInv, Answered, RetryAfter
    <2> HIDE DEF left
    <2>4. reply.retry_after \in 1..window_seconds /\ left <= (reply.retry_after + 1) * TicksPerSecond
      BY <2>2, <2>3, WaitCovers
    <2> QED
      BY <2>1, <2>4, LimiterAssumption DEF left
  <1> QED
    BY <1>1, InitInv, InitClock, NextInv, NextClock, PTL DEF Spec

-----------------------------------------------------------------------------
(* The windows *)

Time(g) == granted[g[1]][g[2]]

\* Every grant that still counts has an attempt of its own in the caller's bucket or in the
\* shared one: the bucket bkt[g] at the position pos[g].
Backed(bkt, pos) ==
  /\ \A g \in RecentGrants :
       /\ bkt[g] \in DOMAIN attempts /\ bkt[g] \in {g[1], Overflow}
       /\ pos[g] \in 1..Len(attempts[bkt[g]])
       /\ attempts[bkt[g]][pos[g]] = Time(g)
  /\ \A g, h \in RecentGrants : bkt[g] = bkt[h] /\ pos[g] = pos[h] => g = h

WindowInv == \E bkt, pos : Backed(bkt, pos)

LEMMA GrantType ==
  ASSUME NEW g
  PROVE  g \in RecentGrants <=> /\ g = <<g[1], g[2]>> /\ g[1] \in Keys
                                /\ g[2] \in 1..Len(granted[g[1]]) /\ Time(g) > cutoff
  BY DEF RecentGrants, Recent, Time

\* A grant that counts is in a bucket the sweep keeps, past what the loop pops.
LEMMA BackedIsLive ==
  ASSUME Inv, ClockInv, NEW key \in Keys, NEW bkt, NEW pos, Backed(bkt, pos),
         NEW g \in RecentGrants
  PROVE  /\ bkt[g] \in Swept(key)
         /\ pos[g] \in (Expired(attempts[bkt[g]]) + 1)..Len(attempts[bkt[g]])
  <1> DEFINE b == bkt[g]
             q == attempts[b]
             n == Expired(q)
  <1>1. /\ b \in DOMAIN attempts /\ pos[g] \in 1..Len(q) /\ q[pos[g]] > cutoff
        /\ q \in Seq(Nat) /\ Ordered(q) /\ cutoff \in Int
    BY GrantType, ClockType DEF Backed, ClockInv
  <1>2. b \notin StaleKeys
    <2>1. Len(q) \in Nat /\ Len(q) \in 1..Len(q)
      BY <1>1
    <2>2. q[pos[g]] <= q[Len(q)] /\ q # << >>
      BY <1>1, <2>1 DEF Ordered
    <2>3. q[Len(q)] \in Nat /\ q[pos[g]] \in Nat
      BY <1>1, <2>1
    <2>4. ~(q[Len(q)] <= cutoff)
      BY <1>1, <2>2, <2>3
    <2> QED
      BY <2>2, <2>4 DEF StaleKeys
  <1>3. n \in 0..Len(q) /\ \A i \in 1..n : q[i] <= cutoff
    BY <1>1, ExpiredHead
  <1>4. q[pos[g]] \in Nat
    BY <1>1
  <1>5. pos[g] \notin 1..n
    BY <1>1, <1>3, <1>4
  <1> QED
    BY <1>1, <1>2, <1>3, <1>5 DEF Swept

\* A call moves the attempts of its bucket down by what the loop pops, and adds one for the
\* grant it makes.
LEMMA CheckWindow ==
  ASSUME Inv, ClockInv, WindowInv, NEW key \in Keys, Check(key)
  PROVE  WindowInv'
  <1> DEFINE bucket == Bucket(key)
             live == LiveOf(key)
             allowed == Len(live) < max_attempts
             left == IF allowed THEN Append(live, now) ELSE live
             n == IF bucket \in Swept(key) THEN Expired(attempts[bucket]) ELSE 0
  <1>0. PICK new : new = <<key, Len(granted[key]) + 1>>
    OBVIOUS
  <1>1. PICK bkt, pos : Backed(bkt, pos)
    BY DEF WindowInv
  <1>2. /\ attempts' = [k \in Swept(key) \cup {bucket} |-> IF k # bucket THEN attempts[k] ELSE left]
        /\ granted' = IF allowed THEN [granted EXCEPT ![key] = Append(@, now)] ELSE granted
        /\ now' = now /\ cutoff' = cutoff /\ bucket \in {key, Overflow}
    BY DEF Check, LiveOf, cutoff, Bucket
  <1>3. /\ now \in Nat /\ cutoff < now /\ cutoff \in Int
        /\ \A k \in Keys : granted[k] \in Seq(Nat)
        /\ \A k \in DOMAIN attempts : attempts[k] \in Seq(Nat)
        /\ DOMAIN granted = Keys /\ granted = [k \in Keys |-> granted[k]]
    BY ClockType DEF Inv, TypeOK
  <1>4. live \in Seq(Nat) /\ Len(live) \in Nat
    BY LiveOrdered
  <1>5. n \in Nat /\ \A g \in RecentGrants : bkt[g] = bucket =>
          /\ pos[g] \in (n + 1)..(n + Len(live))
          /\ live[pos[g] - n] = Time(g)
    <2>1. CASE bucket \in Swept(key)
      <3>1. PICK q : q = attempts[bucket]
        OBVIOUS
      <3>2. q \in Seq(Nat)
        BY <1>3, <2>1, <3>1, SweptPart
      <3>3. n = Expired(q) /\ live = Live(q)
        BY <2>1, <3>1 DEF LiveOf
      <3>4. /\ n \in 0..Len(q) /\ Len(live) = Len(q) - n
            /\ \A i \in 1..Len(live) : live[i] = q[n + i]
        BY <3>2, <3>3, LiveTail
      <3> HIDE DEF n, live, bucket
      <3>5. ASSUME NEW g \in RecentGrants, bkt[g] = bucket
            PROVE  pos[g] \in (n + 1)..Len(q) /\ q[pos[g]] = Time(g)
        BY <1>1, <3>1, <3>3, <3>5, BackedIsLive DEF Backed
      <3>6. ASSUME NEW p \in (n + 1)..Len(q)
            PROVE  p \in (n + 1)..(n + Len(live)) /\ live[p - n] = q[p]
        <4>1. Len(q) \in Nat /\ p - n \in 1..Len(live) /\ n + (p - n) = p
          BY <3>2, <3>4
        <4> QED
          BY <3>4, <4>1
      <3> QED
        BY <3>4, <3>5, <3>6
    <2>2. CASE bucket \notin Swept(key)
      <3>1. \A g \in RecentGrants : bkt[g] # bucket
        BY <1>1, <2>2, BackedIsLive
      <3> QED
        BY <2>2, <3>1
    <2> QED
      BY <2>1, <2>2
  <1>6. \A g \in RecentGrants : bkt[g] \in Swept(key)
    BY <1>1, BackedIsLive
  <1> HIDE DEF live, n, bucket
  <1>7. new \notin RecentGrants
    <2>1. Len(granted[key]) \in Nat
      BY <1>3
    <2>2. ~(new[2] \in 1..Len(granted[new[1]]))
      BY <1>0, <2>1
    <2> QED
      BY <2>2, GrantType
  <1>8. /\ ~allowed => RecentGrants' = RecentGrants /\ \A g \in RecentGrants : Time(g)' = Time(g)
        /\ allowed => /\ RecentGrants' = RecentGrants \cup {new} /\ Time(new)' = now
                      /\ \A g \in RecentGrants : Time(g)' = Time(g)
    <2>1. CASE ~allowed
      BY <1>2, <2>1 DEF RecentGrants, Recent, Time
    <2>2. CASE allowed
      <3>1. /\ \A k \in Keys : k # key => granted'[k] = granted[k]
            /\ granted'[key] = Append(granted[key], now)
        BY <1>2, <1>3, <2>2
      <3>2. /\ Len(granted[key]) \in Nat /\ Len(granted'[key]) = Len(granted[key]) + 1
            /\ \A i \in 1..Len(granted[key]) : granted'[key][i] = granted[key][i]
            /\ granted'[key][Len(granted[key]) + 1] = now
        BY <1>3, <3>1
      <3>3. \A g \in RecentGrants : Time(g)' = Time(g)
        BY <3>1, <3>2, GrantType DEF Time
      <3>4. Time(new)' = now
        BY <1>0, <3>2 DEF Time
      <3>5. \A k \in Keys : Recent(k)' = IF k = key THEN Recent(k) \cup {Len(granted[key]) + 1}
                                         ELSE Recent(k)
        <4> SUFFICES ASSUME NEW k \in Keys
                     PROVE  Recent(k)' = IF k = key THEN Recent(k) \cup {Len(granted[key]) + 1}
                                         ELSE Recent(k)
          OBVIOUS
        <4>1. CASE k # key
          BY <1>2, <3>1, <4>1 DEF Recent
        <4>2. CASE k = key
          <5>1. Recent(key)' = {i \in 1..(Len(granted[key]) + 1) : granted'[key][i] > cutoff}
            BY <1>2, <3>2 DEF Recent
          <5>2. Recent(key) = {i \in 1..Len(granted[key]) : granted'[key][i] > cutoff}
            BY <3>2 DEF Recent
          <5>3. granted'[key][Len(granted[key]) + 1] > cutoff
            BY <1>3, <3>2
          <5>4. 1..(Len(granted[key]) + 1) = (1..Len(granted[key])) \cup {Len(granted[key]) + 1}
            BY <3>2
          <5> QED
            BY <4>2, <5>1, <5>2, <5>3, <5>4
        <4> QED
          BY <4>1, <4>2
      <3>6. RecentGrants' = RecentGrants \cup {new}
        BY <1>0, <3>5 DEF RecentGrants
      <3> QED
        BY <2>2, <3>3, <3>4, <3>6
    <2> QED
      BY <2>1, <2>2
  <1>20. PICK bkt2 : bkt2 = [g \in RecentGrants' |-> IF g = new THEN bucket ELSE bkt[g]]
    OBVIOUS
  <1>21. PICK pos2 : pos2 = [g \in RecentGrants' |->
                              IF g = new THEN Len(live) + 1
                              ELSE IF bkt[g] = bucket THEN pos[g] - n ELSE pos[g]]
    OBVIOUS
  <1>9. /\ Len(left) \in Nat /\ Len(live) <= Len(left)
        /\ \A i \in 1..Len(live) : left[i] = live[i]
        /\ allowed => Len(left) = Len(live) + 1 /\ left[Len(live) + 1] = now
    <2>1. CASE allowed
      <3>1. left = Append(live, now)
        BY <2>1
      <3> HIDE DEF left, allowed
      <3>2. /\ Append(live, now) \in Seq(Nat) /\ Len(Append(live, now)) = Len(live) + 1
            /\ \A i \in 1..Len(live) : Append(live, now)[i] = live[i]
            /\ Append(live, now)[Len(live) + 1] = now
        BY <1>3, <1>4
      <3> QED
        BY <1>4, <3>1, <3>2
    <2>2. CASE ~allowed
      <3>1. left = live
        BY <2>2
      <3> HIDE DEF left, allowed
      <3> QED
        BY <1>4, <2>2, <3>1
    <2> QED
      BY <2>1, <2>2
  <1> HIDE DEF left, allowed
  <1>10. ASSUME NEW g \in RecentGrants
         PROVE  /\ g \in RecentGrants' /\ g # new /\ bkt2[g] = bkt[g]
                /\ bkt2[g] \in DOMAIN attempts' /\ bkt2[g] \in {g[1], Overflow}
                /\ pos2[g] \in 1..Len(attempts'[bkt2[g]])
                /\ attempts'[bkt2[g]][pos2[g]] = Time(g)
                /\ bkt[g] = bucket => pos2[g] \in 1..Len(live) /\ pos2[g] = pos[g] - n
                /\ bkt[g] # bucket => pos2[g] = pos[g]
    <2>1. g \in RecentGrants' /\ g # new /\ bkt2[g] = bkt[g]
      BY <1>7, <1>8, <1>20
    <2>2. pos2[g] = IF bkt[g] = bucket THEN pos[g] - n ELSE pos[g]
      BY <2>1, <1>21
    <2>3. bkt[g] \in {g[1], Overflow} /\ bkt[g] \in Swept(key)
      BY <1>1, <1>6 DEF Backed
    <2>4. CASE bkt[g] = bucket
      <3>1. pos[g] - n \in 1..Len(live) /\ live[pos[g] - n] = Time(g)
        <4>1. n \in Nat /\ pos[g] \in (n + 1)..(n + Len(live)) /\ live[pos[g] - n] = Time(g)
          BY <1>5, <2>4
        <4> QED
          BY <1>4, <4>1
      <3>2. pos[g] - n \in 1..Len(left) /\ left[pos[g] - n] = Time(g)
        <4>1. PICK i \in 1..Len(live) : i = pos[g] - n
          BY <3>1
        <4> QED
          BY <1>4, <1>9, <3>1, <4>1
      <3>3. bucket \in DOMAIN attempts' /\ attempts'[bucket] = left
        BY <1>2
      <3> QED
        BY <2>1, <2>2, <2>3, <2>4, <3>1, <3>2, <3>3
    <2>5. CASE bkt[g] # bucket
      <3>1. bkt[g] \in DOMAIN attempts' /\ attempts'[bkt[g]] = attempts[bkt[g]]
        BY <1>2, <2>3, <2>5
      <3>2. pos[g] \in 1..Len(attempts[bkt[g]]) /\ attempts[bkt[g]][pos[g]] = Time(g)
        BY <1>1 DEF Backed
      <3> QED
        BY <2>1, <2>2, <2>3, <2>5, <3>1, <3>2
    <2> QED
      BY <2>4, <2>5
  <1>11. ASSUME allowed
         PROVE  /\ new \in RecentGrants' /\ bkt2[new] = bucket /\ pos2[new] = Len(live) + 1
                /\ bucket \in DOMAIN attempts' /\ bucket \in {new[1], Overflow}
                /\ Len(live) + 1 \in 1..Len(attempts'[bucket])
                /\ attempts'[bucket][Len(live) + 1] = now
    <2>1. new \in RecentGrants' /\ bkt2[new] = bucket /\ pos2[new] = Len(live) + 1
      BY <1>8, <1>11, <1>20, <1>21
    <2>2. bucket \in DOMAIN attempts' /\ attempts'[bucket] = left
      BY <1>2
    <2>3. bucket \in {new[1], Overflow}
      BY <1>0, <1>2
    <2>4. Len(left) = Len(live) + 1 /\ left[Len(live) + 1] = now
      BY <1>9, <1>11
    <2> QED
      BY <1>4, <2>1, <2>2, <2>3, <2>4
  <1>12. \A g \in RecentGrants' :
           /\ bkt2[g] \in DOMAIN attempts' /\ bkt2[g] \in {g[1], Overflow}
           /\ pos2[g] \in 1..Len(attempts'[bkt2[g]])
           /\ attempts'[bkt2[g]][pos2[g]] = Time(g)'
    BY <1>8, <1>10, <1>11
  <1>13. \A g, h \in RecentGrants' : bkt2[g] = bkt2[h] /\ pos2[g] = pos2[h] => g = h
    <2>1. ASSUME NEW g \in RecentGrants, NEW h \in RecentGrants,
                 bkt2[g] = bkt2[h], pos2[g] = pos2[h]
          PROVE  g = h
      <3>1. bkt[g] = bkt[h]
        BY <1>10, <2>1
      <3>2. pos[g] = pos[h]
        <4>1. CASE bkt[g] = bucket
          <5>0. pos2[g] = pos[g] - n /\ pos2[h] = pos[h] - n
            BY <1>10, <3>1, <4>1
          <5>1. pos[g] - n = pos[h] - n
            BY <2>1, <5>0
          <5>2. /\ n \in Nat /\ Len(live) \in Nat
                /\ pos[g] \in (n + 1)..(n + Len(live)) /\ pos[h] \in (n + 1)..(n + Len(live))
            BY <1>4, <1>5, <3>1, <4>1
          <5>3. pos[g] \in Int /\ pos[h] \in Int
            BY <5>2
          <5> QED
            BY <5>1, <5>2, <5>3
        <4>2. CASE bkt[g] # bucket
          BY <1>10, <2>1, <3>1, <4>2
        <4> QED
          BY <4>1, <4>2
      <3> QED
        BY <1>1, <3>1, <3>2 DEF Backed
    <2>2. ASSUME allowed, NEW g \in RecentGrants, bkt2[g] = bkt2[new] PROVE pos2[g] # pos2[new]
      BY <1>4, <1>10, <1>11, <2>2
    <2> QED
      BY <1>8, <2>1, <2>2
  <1>14. Backed(bkt2, pos2)'
    BY <1>12, <1>13 DEF Backed
  <1> QED
    BY <1>14 DEF WindowInv

LEMMA NextWindow == Inv /\ ClockInv /\ WindowInv /\ [Next]_vars => WindowInv'
  <1> SUFFICES ASSUME Inv, ClockInv, WindowInv, [Next]_vars PROVE WindowInv'
    OBVIOUS
  <1>1. CASE Tick
    <2>1. PICK bkt, pos : Backed(bkt, pos)
      BY DEF WindowInv
    <2>2. /\ granted' = granted /\ attempts' = attempts /\ cutoff' = cutoff + 1 /\ cutoff \in Int
      BY <1>1, ClockType DEF Tick, cutoff
    <2>3. RecentGrants' \subseteq RecentGrants
      <3>1. \A k \in Keys : Recent(k)' \subseteq Recent(k)
        <4>1. \A k \in Keys : \A i \in 1..Len(granted[k]) : granted[k][i] \in Nat
          BY ClockType
        <4> QED
          BY <2>2, <4>1 DEF Recent
      <3> QED
        BY <3>1 DEF RecentGrants
    <2>4. \A g : Time(g)' = Time(g)
      BY <2>2 DEF Time
    <2>5. Backed(bkt, pos)'
      BY <2>1, <2>2, <2>3, <2>4 DEF Backed
    <2> QED
      BY <2>5 DEF WindowInv
  <1>2. ASSUME NEW k \in Keys, Check(k) PROVE WindowInv'
    BY <1>2, CheckWindow
  <1>3. CASE UNCHANGED vars
    <2>1. PICK bkt, pos : Backed(bkt, pos)
      BY DEF WindowInv
    <2>2. Backed(bkt, pos)'
      BY <1>3, <2>1 DEF vars, Backed, RecentGrants, Recent, Time, cutoff
    <2> QED
      BY <2>2 DEF WindowInv
  <1> QED
    BY <1>1, <1>2, <1>3 DEF Next

LEMMA InitWindow == Init => WindowInv
  <1> SUFFICES ASSUME Init PROVE WindowInv
    OBVIOUS
  <1>1. RecentGrants = {}
    BY DEF Init, RecentGrants, Recent
  <1> QED
    BY <1>1 DEF WindowInv, Backed

\* As many grants count as there are stored attempts: one caller's are in two buckets, all
\* callers' in max_keys.
LEMMA WindowsFit ==
  ASSUME Inv, WindowInv
  PROVE  WindowsBounded
  <1>1. PICK bkt, pos : Backed(bkt, pos)
    BY DEF WindowInv
  <1>2. /\ max_attempts \in Nat \ {0} /\ max_keys \in Nat
        /\ \A k \in DOMAIN attempts : Len(attempts[k]) <= max_attempts /\ Len(attempts[k]) \in Nat
    BY LimiterAssumption, ClockType DEF Inv, MemoryBounded
  <1>3. \A g \in RecentGrants : bkt[g] \in DOMAIN attempts /\ pos[g] \in 1..max_attempts
                                /\ bkt[g] \in {g[1], Overflow}
    BY <1>1, <1>2 DEF Backed
  <1>4. IsFiniteSet(1..max_attempts) /\ Cardinality(1..max_attempts) = max_attempts
    BY <1>2, FS_Interval
  <1>5. ASSUME NEW k \in Keys PROVE Cardinality(Recent(k)) <= 2 * max_attempts
    <2> DEFINE T == {k, Overflow} \X (1..max_attempts)
               f == [i \in Recent(k) |-> <<bkt[<<k, i>>], pos[<<k, i>>]>>]
    <2>1. \A i \in Recent(k) : <<k, i>> \in RecentGrants
      BY DEF RecentGrants
    <2>2. f \in [Recent(k) -> T]
      BY <1>3, <2>1
    <2>3. \A i, j \in Recent(k) : f[i] = f[j] => i = j
      <3> SUFFICES ASSUME NEW i \in Recent(k), NEW j \in Recent(k), f[i] = f[j] PROVE i = j
        OBVIOUS
      <3>1. bkt[<<k, i>>] = bkt[<<k, j>>] /\ pos[<<k, i>>] = pos[<<k, j>>]
        OBVIOUS
      <3>2. <<k, i>> = <<k, j>>
        BY <1>1, <2>1, <3>1 DEF Backed
      <3> QED
        BY <3>2
    <2> HIDE DEF f
    <2>4. f \in Injection(Recent(k), T)
      BY <2>2, <2>3 DEF Injection, IsInjective
    <2>5. IsFiniteSet({k, Overflow}) /\ Cardinality({k, Overflow}) = 2
      <3>1. IsFiniteSet({Overflow}) /\ Cardinality({Overflow}) = 1
        BY FS_Singleton
      <3>2. {Overflow} \cup {k} = {k, Overflow} /\ k \notin {Overflow}
        BY LimiterAssumption
      <3> QED
        BY <3>1, <3>2, FS_AddElement
    <2>6. IsFiniteSet(T) /\ Cardinality(T) = 2 * max_attempts
      <3>1. PICK A, B : A = {k, Overflow} /\ B = 1..max_attempts
        OBVIOUS
      <3>2. IsFiniteSet(A \X B) /\ Cardinality(A \X B) = Cardinality(A) * Cardinality(B)
        BY <1>4, <2>5, <3>1, FS_Product
      <3> QED
        BY <1>4, <2>5, <3>1, <3>2
    <2> HIDE DEF T
    <2> QED
      BY <2>4, <2>6, FS_Injection
  <1>6. Cardinality(RecentGrants) <= max_keys * max_attempts
    <2>0. PICK stored : stored = DOMAIN attempts
      OBVIOUS
    <2> DEFINE T == stored \X (1..max_attempts)
               f == [g \in RecentGrants |-> <<bkt[g], pos[g]>>]
    <2>1. f \in [RecentGrants -> T]
      <3>1. \A g \in RecentGrants : <<bkt[g], pos[g]>> \in T
        BY <1>3, <2>0
      <3> QED
        BY <3>1
    <2>2. \A g, h \in RecentGrants : f[g] = f[h] => g = h
      <3> SUFFICES ASSUME NEW g \in RecentGrants, NEW h \in RecentGrants, f[g] = f[h] PROVE g = h
        OBVIOUS
      <3>1. bkt[g] = bkt[h] /\ pos[g] = pos[h]
        OBVIOUS
      <3> QED
        BY <1>1, <3>1 DEF Backed
    <2> HIDE DEF f
    <2>3. f \in Injection(RecentGrants, T)
      BY <2>1, <2>2 DEF Injection, IsInjective
    <2>4. /\ IsFiniteSet(stored) /\ Cardinality(stored) \in Nat
          /\ Cardinality(stored) <= max_keys
      BY <2>0, FS_CardinalityType DEF Inv, MemoryBounded
    <2>5. IsFiniteSet(T) /\ Cardinality(T) = Cardinality(stored) * max_attempts
      <3>1. ASSUME NEW S, IsFiniteSet(S)
            PROVE  /\ IsFiniteSet(S \X (1..max_attempts))
                   /\ Cardinality(S \X (1..max_attempts)) = Cardinality(S) * max_attempts
        BY <1>4, <3>1, FS_Product
      <3> QED
        BY <2>4, <3>1
    <2> HIDE DEF T
    <2>6. /\ IsFiniteSet(RecentGrants) /\ Cardinality(RecentGrants) \in Nat
          /\ Cardinality(RecentGrants) <= Cardinality(stored) * max_attempts
      BY <2>3, <2>5, FS_Injection, FS_CardinalityType
    <2>7. Cardinality(stored) * max_attempts <= max_keys * max_attempts
      <3>1. ASSUME NEW a \in Nat, NEW b \in Nat, NEW c \in Nat, a <= b PROVE a * c <= b * c
        BY <3>1
      <3> QED
        BY <1>2, <2>4, <3>1
    <2>8. /\ Cardinality(stored) * max_attempts \in Nat
          /\ max_keys * max_attempts \in Nat
      BY <1>2, <2>4
    <2> QED
      BY <2>6, <2>7, <2>8
  <1> QED
    BY <1>5, <1>6 DEF WindowsBounded

\* The limiter limits: whatever the table forgets under its own limit, in every window a
\* caller gets at most two full buckets through, and all callers together at most max_keys.
THEOREM WindowsAreBounded == Spec => []WindowsBounded
  BY InitInv, InitClock, InitWindow, NextInv, NextClock, NextWindow, WindowsFit, PTL DEF Spec

=============================================================================
