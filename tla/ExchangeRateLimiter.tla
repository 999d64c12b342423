--------------------------- MODULE ExchangeRateLimiter ---------------------------
(***************************************************************************)
(* The sliding-window limiter in front of POST /v1/auth/exchange.           *)
(*                                                                         *)
(* The only caller is a coroutine of the API's event loop and check() has   *)
(* no await, so one call is one step.  The clock is real-valued in the      *)
(* code; here it counts ticks, TicksPerSecond to a second, which keeps the  *)
(* rounding of int() in retry_after.  A caller's key is "<host>:<prefix>",  *)
(* so it is never the shared bucket's own name.                             *)
(***************************************************************************)
EXTENDS Integers, Sequences, FiniteSets

CONSTANTS Keys,           \* client address and bridge prefix of the callers
          Overflow,       \* the shared bucket, stored under "overflow"
          max_attempts, window_seconds, max_keys,
          TicksPerSecond,
          MaxNow          \* bound: the clock stops here

ASSUME LimiterAssumption ==
  /\ Overflow \notin Keys
  /\ max_attempts \in Nat \ {0} /\ window_seconds \in Nat \ {0}
  /\ max_keys \in Nat \ {0, 1} /\ TicksPerSecond \in Nat \ {0} /\ MaxNow \in Nat

VARIABLES now,
          attempts, \* the stored buckets, each the times of its attempts
          granted,  \* history: the times at which each caller was let through
          reply     \* the last answer, with the oldest attempt a refusal counted

vars == <<now, attempts, granted, reply>>

Window == window_seconds * TicksPerSecond

cutoff == now - Window

NoReply == [allowed |-> TRUE, retry_after |-> 0, oldest |-> 0]

Init ==
  /\ now = 0
  /\ attempts = [k \in {Overflow} |-> << >>]
  /\ granted = [k \in Keys |-> << >>]
  /\ reply = NoReply

\* What the while loop pops: the attempts at the head up to the first one in the window.
Expired(q) == Cardinality({i \in 1..Len(q) : \A h \in 1..i : q[h] <= cutoff})

Live(q) == SubSeq(q, Expired(q) + 1, Len(q))

\* Mutant: a bucket is stale when its oldest attempt is.
StaleKeysByOldest ==
  {k \in DOMAIN attempts \ {Overflow} : attempts[k] = << >> \/ attempts[k][1] <= cutoff}

StaleKeys ==
  {k \in DOMAIN attempts \ {Overflow} :
     attempts[k] = << >> \/ attempts[k][Len(attempts[k])] <= cutoff}

\* The buckets left after the sweep, which only a new key on a full table causes.
Swept(key) ==
  IF key \notin DOMAIN attempts /\ Cardinality(DOMAIN attempts) >= max_keys
    THEN DOMAIN attempts \ StaleKeys
    ELSE DOMAIN attempts

\* Mutant: a new key always gets a bucket.
BucketOfItsOwn(key) == key

Bucket(key) ==
  IF key \notin DOMAIN attempts /\ Cardinality(Swept(key)) >= max_keys THEN Overflow ELSE key

\* Mutant: without the max.
RetryAfterTruncated(oldest) == (Window - (now - oldest)) \div TicksPerSecond

\* max(1, int(seconds until the oldest attempt leaves the window)).
RetryAfter(oldest) ==
  LET seconds == (Window - (now - oldest)) \div TicksPerSecond
  IN  IF seconds < 1 THEN 1 ELSE seconds

Check(key) ==
  LET bucket == Bucket(key)
      live == IF bucket \in Swept(key) THEN Live(attempts[bucket]) ELSE << >>
      allowed == Len(live) < max_attempts
  IN  /\ attempts' = [k \in Swept(key) \cup {bucket} |->
                        IF k # bucket THEN attempts[k]
                        ELSE IF allowed THEN Append(live, now) ELSE live]
      /\ granted' = IF allowed THEN [granted EXCEPT ![key] = Append(@, now)] ELSE granted
      /\ reply' = IF allowed THEN NoReply
                  ELSE [allowed |-> FALSE, retry_after |-> RetryAfter(live[1]), oldest |-> live[1]]
      /\ UNCHANGED now

Tick == now < MaxNow /\ now' = now + 1 /\ reply' = NoReply /\ UNCHANGED <<attempts, granted>>

Next == Tick \/ \E k \in Keys : Check(k)

Spec == Init /\ [][Next]_vars

-----------------------------------------------------------------------------

\* Buckets are sequences of times, the shared bucket is always stored.
TypeOK ==
  /\ now \in 0..MaxNow
  /\ DOMAIN attempts \subseteq Keys \cup {Overflow} /\ Overflow \in DOMAIN attempts
  /\ \A k \in DOMAIN attempts : attempts[k] \in Seq(0..MaxNow)
  /\ granted \in [Keys -> Seq(0..MaxNow)]
  /\ reply \in [allowed : BOOLEAN, retry_after : Nat, oldest : Nat]

\* The limiter's memory is bounded: however many addresses and prefixes call, and whatever
\* the sweep finds, at most max_keys buckets of at most max_attempts times are stored.
MemoryBounded ==
  /\ Cardinality(DOMAIN attempts) <= max_keys
  /\ \A k \in DOMAIN attempts : Len(attempts[k]) <= max_attempts

\* The grants that still count: a caller and a position in its history.
Recent(k) == {i \in 1..Len(granted[k]) : granted[k][i] > cutoff}

RecentGrants == UNION {{k} \X Recent(k) : k \in Keys}

\* A sweep never forgets an attempt that still counts: in every window one caller gets at
\* most two full buckets through, its own and the shared one, and all callers together at
\* most max_keys of them.
WindowsBounded ==
  /\ \A k \in Keys : Cardinality(Recent(k)) <= 2 * max_attempts
  /\ Cardinality(RecentGrants) <= max_keys * max_attempts

\* A refused caller that waits retry_after and one second more finds the attempt that
\* blocked it out of the window, and is never told to wait longer than a window.
RetryAfterSuffices ==
  ~reply.allowed =>
    /\ reply.retry_after \in 1..window_seconds
    /\ reply.oldest <= now + (reply.retry_after + 1) * TicksPerSecond - Window

=============================================================================
